---- MODULE Spec2Model ----
(***************************************************************************)
(* Model of the index service of nexus-extensions (codebase-indexer):      *)
(* the shared state behind one reader/writer lock, the sequential stdio    *)
(* dispatcher, the background indexing and graph-building tasks, and the   *)
(* chunks and edges tables with upsert-by-id semantics.                    *)
(***************************************************************************)
EXTENDS Integers, Sequences, FiniteSets, TLC

VARIABLES
    repositories,      \* st.metadata.repositories : repo_id -> RepoMeta
    saved,             \* metadata.json as last written by save_metadata
    indexing_cancels,  \* st.indexing_cancels : repo_id -> owner of the receiver
    graph_cancels,     \* st.graph_cancels : repo_id -> owner of the receiver
    cancelled,         \* value of each process's watch channel
    chunks,            \* rows of the chunks table
    edges,             \* rows of the edges table
    head,              \* HEAD commit of each repository on disk
    worktree,          \* walker entries of each repository's work tree
    pc,                \* position of each process
    prepo,             \* repository a process is working on
    ix,                \* locals of index_repository / sync_repository per caller
    gx,                \* locals of build_graph per graph task
    disp,              \* locals of the dispatcher's current request
    readers,           \* holders of the state lock in read mode
    queue,             \* FIFO of processes waiting for the state lock
    resp,              \* last response written by the dispatcher
    reqs,              \* number of requests read so far
    built,             \* history: commit and edge rows of the last successful build
    state_cell,        \* index service (STATE): data_dir of the installed shared state, or None
    workspaces,        \* st.metadata.workspaces : name -> repo_ids
    saved_workspaces,  \* the workspaces of metadata.json as last written
    receiver           \* webhook receiver: its AppState, listener, channel and stdio

vars == <<repositories, saved, saved_workspaces, indexing_cancels, graph_cancels, cancelled,
          chunks, edges, head, worktree, pc, prepo, ix, gx, disp, readers,
          queue, resp, reqs, built, state_cell, workspaces, receiver>>

----------------------------------------------------------------------------
(* Bounds *)

MaxReqs == 4
MaxIndexTasks == 2
MaxGraphTasks == 2
MaxHandlers == 2
MaxServers == 2
MaxWebhooks == 1
MaxCalls == 4
MaxPosts == 2
MaxRecorded == 55

(* Program constants *)

CHUNK_BATCH == 32
EDGE_BATCH == 500
SHORT_FILE_LINES == 100
WINDOW == 200
OVERLAP == 50
PARSE_ERROR == -32700
METHOD_NOT_FOUND == -32601
EXEC_ERROR == -32000
INVALID_PARAMS == -32602
INIT_ERROR == -32603
FIRST_EVENT_ID == 20000
MAX_DELIVERIES_PER_WEBHOOK == 50
OK == 200
UNAUTHORIZED == 401
NOT_FOUND == 404
SERVICE_UNAVAILABLE == 503
DEFAULT_DATA_DIR == "/tmp/codebase-indexer"

None == "none"
Repos == {"r1"}
Disp == <<"d", 0>>
IndexTasks == {<<"i", k>> : k \in 1..MaxIndexTasks}
GraphTasks == {<<"g", k>> : k \in 1..MaxGraphTasks}
IndexProcs == IndexTasks \cup {Disp}
Procs == IndexTasks \cup GraphTasks \cup {Disp}

ERR_INDEX_CANCELLED == "Indexing cancelled"
ERR_SYNC_CANCELLED == "Sync cancelled"
ERR_GRAPH_CANCELLED == "Graph building cancelled"
ERR_STORE == "store error"
ERR_NO_COMMIT == "object not found"
CancelErrors == {ERR_INDEX_CANCELLED, ERR_SYNC_CANCELLED}

----------------------------------------------------------------------------
(* Sequences helpers *)

Range(s) == {s[k] : k \in 1..Len(s)}

RECURSIVE SeqOfSet(_)
SeqOfSet(S) ==
    IF S = {} THEN <<>>
    ELSE LET x == CHOOSE y \in S : TRUE IN <<x>> \o SeqOfSet(S \ {x})

Min(a, b) == IF a < b THEN a ELSE b

----------------------------------------------------------------------------
(* Work tree entries: what ignore::WalkBuilder yields, with the results of *)
(* the external parsers (extract_symbols, extract_references) as data.     *)

DirEntry == [kind |-> "dir", path |-> ".", lang |-> None, lines |-> 0,
             symbols |-> <<>>, refs |-> <<>>]

File(path, lang, lines, symbols, refs) ==
    [kind |-> "file", path |-> path, lang |-> lang, lines |-> lines,
     symbols |-> symbols, refs |-> refs]

Sym(name, ty, s, e) == [name |-> name, symbol_type |-> ty, start_line |-> s, end_line |-> e]
Ref(target, ty, line) == [target_name |-> target, edge_type |-> ty, line |-> line]

(* The commits of the model's repository. c1 holds one short file, c2 the *)
(* same file grown past the short-file limit. c3 holds one file with more  *)
(* references than one batch of edges takes, the last two of them the same *)
(* call on the same line (as in f(f(x))).                                  *)
ManyRefs ==
    [k \in 1..(EDGE_BATCH + 1) |->
        Ref(<<"f">>, "calls", IF k > EDGE_BATCH THEN EDGE_BATCH ELSE k)]

(* s1 and s2 are two commits of a repository with a file the second       *)
(* commit keeps, one it rewrites, one it deletes and one it adds; the      *)
(* rewritten and the added file each hold one batch of symbols (the impl   *)
(* blocks of one type). sx is a commit with the tree of s1 that a history  *)
(* rewrite has since dropped from the object database.                     *)
ManySyms ==
    [k \in 1..CHUNK_BATCH |-> Sym(<<"S">>, "impl", 10 * k - 9, 10 * k)]

Odb == {"c1", "c2", "c3", "s1", "s2"}

TreeAt(c) ==
    CASE c \in {"s1", "sx"} ->
           <<DirEntry,
             File("keep.rs", "rust", 20, <<>>, <<>>),
             File("mod.rs", "rust", 10, <<>>, <<>>),
             File("old.rs", "rust", 10, <<>>, <<>>)>>
      [] c = "s2" ->
           <<DirEntry,
             File("keep.rs", "rust", 20, <<>>, <<>>),
             File("mod.rs", "rust", 10 * CHUNK_BATCH, ManySyms, <<>>),
             File("new.rs", "rust", 10 * CHUNK_BATCH, ManySyms, <<>>)>>
      [] c = "c1" ->
           <<DirEntry,
             File("a.rs", "rust", 10, <<Sym(<<"foo">>, "function", 1, 5)>>,
                  <<Ref(<<"foo">>, "calls", 8)>>)>>
      [] c = "c2" ->
           <<DirEntry,
             File("a.rs", "rust", 120, <<Sym(<<"foo">>, "function", 1, 60)>>,
                  <<Ref(<<"foo">>, "calls", 80), Ref(<<"bar">>, "calls", 90)>>)>>
      [] OTHER ->
           <<DirEntry,
             File("b.rs", "rust", EDGE_BATCH + 100,
                  <<Sym(<<"f">>, "function", 1, EDGE_BATCH + 100)>>, ManyRefs)>>


----------------------------------------------------------------------------
(* indexer.rs: chunk ids and chunk_file *)

chunk_id(repo_id, file_path, symbol_name, start_line) ==
    <<repo_id, file_path, symbol_name, start_line>>

ChunkRecord(repo_id, f, name, ty, s, e) ==
    [id |-> chunk_id(repo_id, f.path, name, s), repo_id |-> repo_id,
     file_path |-> f.path, symbol_name |-> name, symbol_type |-> ty,
     start_line |-> s, end_line |-> e, vector |-> FALSE]

(* Windows is preceded by the variant that lays the windows end to end,    *)
(* without overlap.                                                        *)
Windows_no_overlap(repo_id, f, start) ==
    [k \in 1..((f.lines + WINDOW - 1) \div WINDOW) |->
        ChunkRecord(repo_id, f, <<>>, "file_chunk",
                    (k - 1) * WINDOW + 1, Min(k * WINDOW, f.lines))]

RECURSIVE Windows(_, _, _)
Windows(repo_id, f, start) ==
    IF start >= f.lines THEN <<>>
    ELSE LET end == Min(start + WINDOW, f.lines)
             c == ChunkRecord(repo_id, f, <<>>, "file_chunk", start + 1, end)
         IN IF end >= f.lines THEN <<c>>
            ELSE <<c>> \o Windows(repo_id, f, start + (WINDOW - OVERLAP))

(* chunk_file is preceded by the variant that adds the window fallback to  *)
(* the symbols of a long file.                                             *)
chunk_file_symbols_and_windows(f, repo_id) ==
    IF f.lines < SHORT_FILE_LINES
    THEN <<ChunkRecord(repo_id, f, <<>>, "file_chunk", 1, f.lines)>>
    ELSE [k \in 1..Len(f.symbols) |->
            ChunkRecord(repo_id, f, f.symbols[k].name, f.symbols[k].symbol_type,
                        f.symbols[k].start_line, f.symbols[k].end_line)]
         \o Windows(repo_id, f, 0)
chunk_file(f, repo_id) ==
    IF f.lines < SHORT_FILE_LINES
    THEN <<ChunkRecord(repo_id, f, <<>>, "file_chunk", 1, f.lines)>>
    ELSE IF f.lang # "unknown" /\ f.symbols # <<>>
    THEN [k \in 1..Len(f.symbols) |->
            ChunkRecord(repo_id, f, f.symbols[k].name, f.symbols[k].symbol_type,
                        f.symbols[k].start_line, f.symbols[k].end_line)]
    ELSE Windows(repo_id, f, 0)

----------------------------------------------------------------------------
(* search.rs: the tables. merge_insert on "id": a row whose id matches an *)
(* existing row overwrites it, the others are inserted. No batch of the    *)
(* model holds two rows with one id.                                       *)

Upsert(table, rows) ==
    LET ids == {rows[k].id : k \in 1..Len(rows)}
        last == {k \in 1..Len(rows) :
                    \A j \in (k + 1)..Len(rows) : rows[j].id # rows[k].id}
    IN {t \in table : t.id \notin ids} \cup {rows[k] : k \in last}

upsert_chunks(table, rows) == Upsert(table, rows)
upsert_edges(table, rows) == Upsert(table, rows)

delete_repo_chunks(table, repo_id) == {t \in table : t.repo_id # repo_id}
(* delete_repo_edges is preceded by the variant that deletes nothing. *)
delete_repo_edges_none(table, repo_id) == table
delete_repo_edges(table, repo_id) == {t \in table : t.repo_id # repo_id}
(* delete_file_chunks and count_rows_filtered are each preceded by the     *)
(* variant whose filter leaves out the repository.                         *)
delete_file_chunks_any_repo(table, repo_id, paths) ==
    {t \in table : t.file_path \notin paths}
delete_file_chunks(table, repo_id, paths) ==
    {t \in table : ~(t.repo_id = repo_id /\ t.file_path \in paths)}
count_rows_unfiltered(table, repo_id) == Cardinality(table)
count_rows_filtered(table, repo_id) == Cardinality({t \in table : t.repo_id = repo_id})

----------------------------------------------------------------------------
(* Maps (HashMap) *)

EmptyMap == [x \in {} |-> None]
Put(m, k, v) == [x \in DOMAIN m \cup {k} |-> IF x = k THEN v ELSE m[x]]
Del(m, k) == [x \in DOMAIN m \ {k} |-> m[x]]

(* ops.rs 23-27: Path::canonicalize. The request may spell the directory   *)
(* of a repository in more than one way.                                   *)
InputPaths == {"/w/r1", "/w/./r1", "/w/x/../r1"}
canonicalize(path) == IF path \in {"/w/./r1", "/w/x/../r1"} THEN "/w/r1" ELSE path

(* indexer.rs 11-15: the SHA-256 of the canonical path, one id per path *)
compute_repo_id(path) == CASE path = "/w/r1" -> "r1"

(* state.rs: RepoMeta as op_add_repository creates it (ops.rs 53-67) *)
NewRepoMeta(repo_id, path) ==
    [id |-> repo_id, path |-> path, chunk_count |-> 0, embed_pending |-> FALSE, last_indexed_commit |-> None,
     last_sync_error |-> None, indexing |-> TRUE, graph_edge_count |-> 0,
     last_graph_commit |-> None, graph_building |-> FALSE]

(* state.rs: AppState::is_indexing / is_graph_building. The first         *)
(* definition is the variant that looks the repository up in the other     *)
(* map.                                                                    *)
is_indexing_by_graph_map(repo_id) == repo_id \in DOMAIN graph_cancels
is_indexing(repo_id) == repo_id \in DOMAIN indexing_cancels
is_graph_building(repo_id) == repo_id \in DOMAIN graph_cancels

----------------------------------------------------------------------------
(* tokio::sync::RwLock: write-preferring and fair. A waiting writer blocks *)
(* later readers; waiters are served in FIFO order. Short sections are     *)
(* taken and released within one step, so only the long read sections of   *)
(* the indexing and graph bodies appear in readers.                        *)

AtTurn(p) == IF queue = <<>> THEN TRUE ELSE Head(queue) = p
CanRead(p) == AtTurn(p)
CanWrite(p) == readers = {} /\ AtTurn(p)
Deq(p) == IF queue # <<>> /\ Head(queue) = p THEN Tail(queue) ELSE queue

ReadPcs == {"add_check", "t_lock", "sgb_check", "g_lock",
            "sync_list", "sync_lock", "bg_check", "cg_lock", "status"}
WritePcs == {"add_reg", "add_ins", "remove", "fin", "sgb_insert", "g_fin",
             "sync_mark", "sync_ins", "shutdown", "t_tblerr", "g_tblerr",
             "create_ws"}

Wants(p) == IF pc[p] \in ReadPcs THEN "r"
            ELSE IF pc[p] \in WritePcs THEN "w" ELSE None

(* A process that cannot take the lock at once joins the wait queue. *)
LockWait(p) ==
    /\ UNCHANGED <<state_cell, workspaces, receiver>>
    /\ Wants(p) # None
    /\ p \notin Range(queue)
    /\ IF Wants(p) = "r" THEN ~CanRead(p) ELSE ~CanWrite(p)
    /\ queue' = Append(queue, p)
    /\ UNCHANGED <<repositories, saved, saved_workspaces, indexing_cancels, graph_cancels,
                   cancelled, chunks, edges, head, worktree, pc, prepo, ix, gx,
                   disp, readers, resp, reqs, built>>

----------------------------------------------------------------------------
IxIdle == [kind |-> None, pos |-> 0, items |-> <<>>, buf |-> <<>>,
           pending |-> FALSE, head_commit |-> None, res |-> None, count |-> 0]
GxIdle == [phase |-> None, pos |-> 0, items |-> <<>>, buf |-> <<>>, total |-> 0,
           head_commit |-> None, direct |-> EmptyMap, merged |-> EmptyMap,
           res |-> None]
DispIdle == [op |-> None, id |-> 0, path |-> None, todo |-> <<>>, synced |-> 0,
             name |-> None, repo_ids |-> <<>>,
             cg |-> [symbol |-> <<>>, direction |-> None, requested |-> 0,
                     depth |-> 0, visited |-> {}, queue |-> <<>>, out |-> {}]]
NoResp == [op |-> None, repo |-> None, status |-> None, n |-> 0, id |-> 0, code |-> 0]
NoBuild == [commit |-> None, rows |-> {}]

----------------------------------------------------------------------------
(* The webhook receiver (src/webhook-receiver): values.                     *)
(* Byte strings and header values are sequences of tokens. A body may hold  *)
(* a token that is not valid UTF-8; the digests and encodings are symbolic  *)
(* terms, distinct for distinct arguments.                                  *)

(* types.rs 5-16: a Webhook; name, url, created_at and last_triggered take  *)
(* no part in any decision.                                                 *)
Webhook(id, event_type, method, secret, status) ==
    [id |-> id, event_type |-> event_type, verification_method |-> method,
     verification_secret |-> secret, status |-> status, trigger_count |-> 0]

(* http_server.rs 58-63: the extracted parts of a request.                  *)
HttpRequest(id, sig, msg_id, timestamp, body) ==
    [id |-> id, signature |-> sig, msg_id |-> msg_id, timestamp |-> timestamp,
     body |-> body]

HttpIdle == [pc |-> "idle", server |-> 0,
             req |-> HttpRequest(0, <<>>, <<>>, <<>>, <<>>),
             found |-> FALSE, wh |-> Webhook(0, "", "", <<>>, ""),
             code |-> 0, sent |-> FALSE]

NoData == [verification_method |-> "", verification_secret |-> <<>>, status |-> ""]
NoCall == [method |-> None, id |-> 0, data |-> NoData, drained |-> 0]

(* main.rs 78-88: AppState::new, and around it the process: the listener's  *)
(* map and its read guards, the servers started so far, the channel whose   *)
(* receiver pending_rx holds (0: no receiver), the stdio streams.           *)
AppState_new ==
    [pc |-> "idle",
     call |-> NoCall,
     pending |-> <<>>,
     store |-> [webhooks |-> EmptyMap, deliveries |-> EmptyMap],
     disk |-> [webhooks |-> EmptyMap, deliveries |-> EmptyMap],
     webhook_map |-> EmptyMap,
     guards |-> {},
     servers |-> 0,
     pending_rx |-> 0,
     chan |-> <<>>,
     http |-> [h \in (1..MaxHandlers) |-> HttpIdle],
     out |-> <<>>,
     reads |-> 0,
     NEXT_ID |-> FIRST_EVENT_ID,
     created |-> 0,
     posts |-> 0,
     uuids |-> 0,
     calls |-> 0]

(* String::from_utf8_lossy: every invalid sequence becomes U+FFFD.          *)
from_utf8_lossy(body) ==
    [k \in 1..Len(body) |-> IF body[k] \in {"0xFF", "0xFE"} THEN "U+FFFD" ELSE body[k]]

(* verification.rs 15-20, 46-51: HMAC-SHA256 of msg under key.              *)
hmac_sha256(key, msg) == <<"hmac">> \o key \o <<"|">> \o msg

hex_encode(bytes) == <<"hex">> \o bytes
base64_encode(bytes) == <<"b64">> \o bytes

(* str::split_whitespace: the maximal runs without a space or a tab, cur    *)
(* being the run read so far.                                               *)
RECURSIVE split_whitespace(_, _)
split_whitespace(s, cur) ==
    IF s = <<>> THEN (IF cur = <<>> THEN <<>> ELSE <<cur>>)
    ELSE IF Head(s) \in {" ", "TAB"}
         THEN (IF cur = <<>> THEN <<>> ELSE <<cur>>) \o split_whitespace(Tail(s), <<>>)
         ELSE split_whitespace(Tail(s), Append(cur, Head(s)))

(* verification.rs 9-26. *)
verify_github_hmac(secret, body, signature_header) ==
    /\ signature_header # <<>>
    /\ Head(signature_header) = "sha256="
    /\ hex_encode(hmac_sha256(secret, body)) = Tail(signature_header)

(* verification.rs 31-59. *)
verify_standard_webhooks(secret, body, msg_id, timestamp, signature_header) ==
    LET decodes == secret # <<>> /\ Head(secret) = "b64"
        secret_bytes == IF decodes THEN Tail(secret) ELSE secret
        sigs == split_whitespace(signature_header, <<>>)
        signed_payload == msg_id \o <<".">> \o timestamp \o <<".">> \o from_utf8_lossy(body)
        expected_sig == <<"v1,">> \o base64_encode(hmac_sha256(secret_bytes, signed_payload))
    IN  \E k \in DOMAIN sigs : sigs[k] = expected_sig

(* http_server.rs 76-116: the verification of a request against the clone   *)
(* of the webhook. A custom-header secret is <<name, ":", value>> and the   *)
(* request carries the value of that header in its signature field.         *)
Verified(wh, req) ==
    CASE wh.verification_method = "none" -> TRUE
      [] wh.verification_method = "github-hmac" ->
            verify_github_hmac(wh.verification_secret, req.body, req.signature)
      [] wh.verification_method = "standard-webhooks" ->
            verify_standard_webhooks(wh.verification_secret, req.body, req.msg_id,
                                     req.timestamp, req.signature)
      [] wh.verification_method = "custom-header" ->
            LET secret == wh.verification_secret
                colons == {k \in DOMAIN secret : secret[k] = ":"}
            IN  /\ colons # {}
                /\ \E k \in colons :
                      /\ \A j \in colons : k <= j
                      /\ req.signature = SubSeq(secret, k + 1, Len(secret))
      [] OTHER -> FALSE

(* record_delivery with the eviction after the push: a full buffer loses    *)
(* the delivery it was just given.                                          *)
record_delivery_evicts_newest(store, delivery) ==
    LET id == delivery.webhook_id
        buffer == IF id \in DOMAIN store.deliveries THEN store.deliveries[id] ELSE <<>>
        kept == IF Len(buffer) >= MAX_DELIVERIES_PER_WEBHOOK THEN buffer
                ELSE Append(buffer, delivery)
    IN  [deliveries |-> Put(store.deliveries, id, kept),
         webhooks |->
            IF id \in DOMAIN store.webhooks
            THEN [store.webhooks EXCEPT ![id].trigger_count = @ + 1]
            ELSE store.webhooks]

(* store.rs 117-130: record_delivery. *)
record_delivery(store, delivery) ==
    LET id == delivery.webhook_id
        buffer == IF id \in DOMAIN store.deliveries THEN store.deliveries[id] ELSE <<>>
        kept == IF Len(buffer) >= MAX_DELIVERIES_PER_WEBHOOK THEN Tail(buffer) ELSE buffer
    IN  [deliveries |-> Put(store.deliveries, id, Append(kept, delivery)),
         webhooks |->
            IF id \in DOMAIN store.webhooks
            THEN [store.webhooks EXCEPT ![id].trigger_count = @ + 1]
            ELSE store.webhooks]

----------------------------------------------------------------------------
Init ==
    /\ repositories = EmptyMap
    /\ saved = EmptyMap
    /\ indexing_cancels = EmptyMap
    /\ graph_cancels = EmptyMap
    /\ cancelled = [p \in Procs |-> FALSE]
    /\ state_cell = DEFAULT_DATA_DIR
    /\ workspaces = EmptyMap
    /\ saved_workspaces = EmptyMap
    /\ receiver = AppState_new
    /\ chunks = {}
    /\ edges = {}
    /\ head = [r \in Repos |-> "c1"]
    /\ worktree = [r \in Repos |-> TreeAt("c1")]
    /\ pc = [p \in Procs |-> IF p = Disp THEN "idle" ELSE "free"]
    /\ prepo = [p \in Procs |-> None]
    /\ ix = [p \in IndexProcs |-> IxIdle]
    /\ gx = [g \in GraphTasks |-> GxIdle]
    /\ disp = DispIdle
    /\ readers = {}
    /\ queue = <<>>
    /\ resp = NoResp
    /\ reqs = 0
    /\ built = [r \in Repos |-> NoBuild]

FreeSlot(S) == CHOOSE p \in S : pc[p] = "free" /\ \A q \in S : pc[q] = "free" => p[2] <= q[2]
HasFree(S) == \E p \in S : pc[p] = "free"
NumFree(S) == Cardinality({p \in S : pc[p] = "free"})
NumLive(S) == Cardinality({p \in S : pc[p] # "free"})

(* main.rs 102-103: one more line on standard output. resp is the last     *)
(* line written and n the number of lines written so far.                  *)
Written(op, r, status) ==
    [op |-> op, repo |-> r, status |-> status, n |-> resp.n + 1, id |-> disp.id,
     code |-> IF status \in {"error", "unknown_repository"} THEN EXEC_ERROR ELSE 0]
Respond(op, r, status) == resp' = Written(op, r, status)

----------------------------------------------------------------------------
(* main.rs: the stdio loop reads one request at a time and answers it      *)
(* before reading the next (handle.block_on(handle_request)). An execute   *)
(* request is dispatched only with the shared state installed (main.rs     *)
(* 164-174).                                                               *)

FirstPc(op) ==
    CASE op = "add" -> "add_check"
      [] op = "remove" -> "remove"
      [] op = "sync" -> "sync_list"
      [] op = "build_graph" -> "bg_check"
      [] op = "shutdown" -> "shutdown"
      [] op = "status" -> "status"

(* Graph-task slots the request may come to need, so that a spawn never    *)
(* lacks a slot within the bounds.                                         *)
SlotsNeeded(op) ==
    CASE op = "add" -> 1
      [] op = "sync" -> Cardinality(Repos)
      [] op = "build_graph" -> 1
      [] OTHER -> 0

Request(op, r, path) ==
    /\ UNCHANGED <<state_cell, workspaces, receiver>>
    /\ pc[Disp] = "idle"
    /\ reqs < MaxReqs
    /\ op # "shutdown" => state_cell # None
    /\ op = "add" => HasFree(IndexTasks)
    /\ NumFree(GraphTasks) >= NumLive(IndexTasks) + SlotsNeeded(op)
    /\ pc' = [pc EXCEPT ![Disp] = FirstPc(op)]
    /\ prepo' = [prepo EXCEPT ![Disp] = r]
    /\ disp' = [DispIdle EXCEPT !.op = op, !.id = reqs + 1, !.path = path]
    /\ reqs' = reqs + 1
    /\ UNCHANGED <<repositories, saved, saved_workspaces, indexing_cancels, graph_cancels,
                   cancelled, chunks, edges, head, worktree, ix, gx, readers,
                   queue, resp, built>>

(* ops.rs 39-48: the already_indexing check of op_add_repository *)
AddCheck ==
    /\ UNCHANGED <<state_cell, workspaces, receiver>>
    /\ pc[Disp] = "add_check"
    /\ CanRead(Disp)
    /\ queue' = Deq(Disp)
    /\ IF is_indexing(prepo[Disp])
       THEN /\ Respond("add", prepo[Disp], "already_indexing")
            /\ pc' = [pc EXCEPT ![Disp] = "idle"]
            /\ prepo' = [prepo EXCEPT ![Disp] = None]
            /\ disp' = DispIdle
       ELSE /\ pc' = [pc EXCEPT ![Disp] = "add_reg"]
            /\ UNCHANGED <<resp, prepo, disp>>
    /\ UNCHANGED <<repositories, saved, saved_workspaces, indexing_cancels, graph_cancels,
                   cancelled, chunks, edges, head, worktree, ix, gx, readers,
                   reqs, built>>

(* ops.rs 50-71: register the repository and save *)
AddRegister ==
    /\ UNCHANGED <<state_cell, workspaces, receiver>>
    /\ pc[Disp] = "add_reg"
    /\ CanWrite(Disp)
    /\ queue' = Deq(Disp)
    /\ LET r == prepo[Disp]
           m == IF r \in DOMAIN repositories THEN repositories[r]
                ELSE NewRepoMeta(r, disp.path)
       IN repositories' = Put(repositories, r,
                              [m EXCEPT !.indexing = TRUE, !.last_sync_error = None])
    /\ saved' = repositories'
    /\ saved_workspaces' = workspaces'
    /\ pc' = [pc EXCEPT ![Disp] = "add_ins"]
    /\ UNCHANGED <<indexing_cancels, graph_cancels, cancelled, chunks, edges,
                   head, worktree, prepo, ix, gx, disp, readers, resp, reqs, built>>

(* ops.rs 73-84, 155-159: insert the cancel sender, spawn the task, answer *)
AddInsert ==
    /\ UNCHANGED <<state_cell, workspaces, receiver>>
    /\ pc[Disp] = "add_ins"
    /\ CanWrite(Disp)
    /\ HasFree(IndexTasks)
    /\ queue' = Deq(Disp)
    /\ LET r == prepo[Disp]
           i == FreeSlot(IndexTasks)
       IN /\ indexing_cancels' = Put(indexing_cancels, r, i)
          /\ cancelled' = [cancelled EXCEPT ![i] = FALSE]
          /\ pc' = [pc EXCEPT ![Disp] = "idle", ![i] = "t_lock"]
          /\ prepo' = [prepo EXCEPT ![Disp] = None, ![i] = r]
          /\ Respond("add", r, "indexing")
    /\ disp' = DispIdle
    /\ UNCHANGED <<repositories, saved, saved_workspaces, graph_cancels, chunks, edges, head,
                   worktree, ix, gx, readers, reqs, built>>

(* The receivers a cancel.send(true) on the entries of r reaches. *)
Owners(m, rs) == {m[r] : r \in rs \cap DOMAIN m}

(* ops.rs 187-190: ws.repo_ids.retain(|id| id != repo_id) on every          *)
(* workspace, preceded by the variant that leaves the workspaces alone.     *)
retain_other_repos_none(ws, repo_id) == ws
retain_other_repos(ws, repo_id) ==
    [name \in DOMAIN ws |-> SelectSeq(ws[name], LAMBDA id : id # repo_id)]

(* ops.rs 166-209: op_remove_repository, one write-locked section *)
RemoveRepository ==
    /\ UNCHANGED <<state_cell, receiver>>
    /\ workspaces' = retain_other_repos(workspaces, prepo[Disp])
    /\ pc[Disp] = "remove"
    /\ CanWrite(Disp)
    /\ queue' = Deq(Disp)
    /\ LET r == prepo[Disp]
           removed == r \in DOMAIN repositories
           hit == Owners(indexing_cancels, {r}) \cup Owners(graph_cancels, {r})
       IN /\ cancelled' = [p \in Procs |-> IF p \in hit THEN TRUE ELSE cancelled[p]]
          /\ indexing_cancels' = Del(indexing_cancels, r)
          /\ graph_cancels' = Del(graph_cancels, r)
          /\ repositories' = Del(repositories, r)
          /\ saved' = repositories'
          /\ saved_workspaces' = workspaces'
          /\ chunks' = IF removed THEN delete_repo_chunks(chunks, r) ELSE chunks
          /\ edges' = IF removed THEN delete_repo_edges(edges, r) ELSE edges
          /\ Respond("remove", r, IF removed THEN "removed" ELSE "not_removed")
    /\ pc' = [pc EXCEPT ![Disp] = "idle"]
    /\ prepo' = [prepo EXCEPT ![Disp] = None]
    /\ disp' = DispIdle
    /\ built' = [built EXCEPT ![prepo[Disp]] = NoBuild]
    /\ UNCHANGED <<head, worktree, ix, gx, readers, reqs>>

(* main.rs 68-104 and ops.rs 591-609: a create_workspace request with its   *)
(* name and repo_ids is read.                                               *)
CreateWorkspaceRequest(name, repo_ids) ==
    /\ UNCHANGED <<state_cell, workspaces, receiver>>
    /\ pc[Disp] = "idle"
    /\ reqs < MaxReqs
    /\ state_cell # None
    /\ reqs' = reqs + 1
    /\ pc' = [pc EXCEPT ![Disp] = "create_ws"]
    /\ disp' = [DispIdle EXCEPT !.op = "create_workspace", !.id = reqs + 1,
                                !.name = name, !.repo_ids = repo_ids]
    /\ UNCHANGED <<repositories, saved, saved_workspaces, indexing_cancels,
                   graph_cancels, cancelled, chunks, edges, head, worktree, prepo,
                   ix, gx, readers, queue, resp, built>>

(* ops.rs 611-636: the write-locked section of op_create_workspace. The     *)
(* first repo_id that is not in the registry ends it with an error;         *)
(* otherwise the workspace is inserted under its name, replacing one of     *)
(* the same name, and the metadata is saved.                                *)
CreateWorkspace ==
    /\ UNCHANGED <<state_cell, receiver>>
    /\ pc[Disp] = "create_ws"
    /\ CanWrite(Disp)
    /\ queue' = Deq(Disp)
    /\ IF \E k \in DOMAIN disp.repo_ids : disp.repo_ids[k] \notin DOMAIN repositories
       THEN /\ Respond("create_workspace", None, "error")
            /\ UNCHANGED <<workspaces, saved, saved_workspaces>>
       ELSE /\ workspaces' = Put(workspaces, disp.name, disp.repo_ids)
            /\ saved' = repositories
            /\ saved_workspaces' = workspaces'
            /\ Respond("create_workspace", None, "created")
    /\ pc' = [pc EXCEPT ![Disp] = "idle"]
    /\ disp' = DispIdle
    /\ UNCHANGED <<repositories, indexing_cancels, graph_cancels, cancelled, chunks,
                   edges, head, worktree, prepo, ix, gx, readers, reqs, built>>

(* main.rs 139-156 and 105-107: shutdown drains both maps, saves, answers, *)
(* and the loop ends. Tasks already spawned may still run until the        *)
(* process exits.                                                          *)
Shutdown ==
    /\ UNCHANGED <<state_cell, workspaces, receiver>>
    /\ pc[Disp] = "shutdown"
    /\ CanWrite(Disp)
    /\ queue' = Deq(Disp)
    /\ LET hit == Owners(indexing_cancels, Repos) \cup Owners(graph_cancels, Repos)
       IN cancelled' = [p \in Procs |-> IF p \in hit THEN TRUE ELSE cancelled[p]]
    /\ indexing_cancels' = EmptyMap
    /\ graph_cancels' = EmptyMap
    /\ saved' = repositories
    /\ saved_workspaces' = workspaces
    /\ Respond("shutdown", None, "ok")
    /\ pc' = [pc EXCEPT ![Disp] = "stopped"]
    /\ prepo' = [prepo EXCEPT ![Disp] = None]
    /\ disp' = DispIdle
    /\ UNCHANGED <<repositories, chunks, edges, head, worktree, ix, gx,
                   readers, reqs, built>>

(* ops.rs 526-585: op_status, one read-locked section. state.read() waits  *)
(* behind a writer that is already queued.                                 *)
Status ==
    /\ UNCHANGED <<state_cell, workspaces, receiver>>
    /\ pc[Disp] = "status"
    /\ CanRead(Disp)
    /\ queue' = Deq(Disp)
    /\ Respond("status", None, "ok")
    /\ pc' = [pc EXCEPT ![Disp] = "idle"]
    /\ prepo' = [prepo EXCEPT ![Disp] = None]
    /\ disp' = DispIdle
    /\ UNCHANGED <<repositories, saved, saved_workspaces, indexing_cancels, graph_cancels,
                   cancelled, chunks, edges, head, worktree, ix, gx, readers,
                   reqs, built>>

----------------------------------------------------------------------------
(* indexer.rs: index_repository and sync_repository, run by a background   *)
(* task (add_repository) or inline by the dispatcher (sync). The caller    *)
(* holds the read lock from the first to the last step of the body.        *)

WithVectors(rows, v) == [k \in 1..Len(rows) |-> [rows[k] EXCEPT !.vector = v]]

(* The body returns: the caller's read guard is dropped with the block.    *)
Return(p, res, count, pending, hc) ==
    /\ ix' = [ix EXCEPT ![p] = [IxIdle EXCEPT !.res = res, !.count = count,
                                              !.pending = pending, !.head_commit = hc]]
    /\ readers' = readers \ {p}
    /\ pc' = [pc EXCEPT ![p] = "fin"]

CancelError(kind) == IF kind = "sync" THEN ERR_SYNC_CANCELLED ELSE ERR_INDEX_CANCELLED

(* indexer.rs 32-58: start of index_repository *)
BeginIndex(p, r) ==
    [IxIdle EXCEPT !.kind = "index", !.pos = 1, !.items = worktree[r],
                   !.head_commit = head[r]]

(* indexer.rs 199-225: embed_and_upsert. The adapter may fail (vectors     *)
(* stay null, embed_pending latched) and the store may fail (error).       *)
EmbedOutcomes == {"ok", "embed_fail", "store_fail"}
(* PendingAfter is preceded by the variant in which a later successful    *)
(* batch clears the flag.                                                  *)
PendingAfter_last_batch(pending, out) == out # "ok"
PendingAfter(pending, out) == pending \/ out # "ok"
ChunksAfter(rows, out) ==
    IF out = "store_fail" THEN chunks
    ELSE upsert_chunks(chunks, WithVectors(rows, out = "ok"))

(* indexer.rs 60-106 and 300-332: one iteration of the walk *)
IndexWalk(p) ==
    /\ UNCHANGED <<state_cell, workspaces, receiver>>
    /\ pc[p] = "ix_walk"
    /\ ix[p].pos <= Len(ix[p].items)
    /\ LET b == ix[p]
           r == prepo[p]
           e == b.items[b.pos]
           buf2 == b.buf \o chunk_file(e, r)
       IN IF cancelled[p]
          THEN /\ Return(p, CancelError(b.kind), 0, FALSE, None)
               /\ UNCHANGED chunks
          ELSE IF e.kind = "dir"
          THEN /\ ix' = [ix EXCEPT ![p].pos = b.pos + 1]
               /\ UNCHANGED <<chunks, readers, pc>>
          ELSE IF Len(buf2) >= CHUNK_BATCH
          THEN \E out \in EmbedOutcomes :
                 /\ chunks' = ChunksAfter(buf2, out)
                 /\ IF out = "store_fail"
                    THEN Return(p, ERR_STORE, 0, FALSE, None)
                    ELSE /\ ix' = [ix EXCEPT ![p].pos = b.pos + 1, ![p].buf = <<>>,
                                             ![p].pending = PendingAfter(b.pending, out)]
                         /\ UNCHANGED <<readers, pc>>
          ELSE /\ ix' = [ix EXCEPT ![p].pos = b.pos + 1, ![p].buf = buf2]
               /\ UNCHANGED <<chunks, readers, pc>>
    /\ UNCHANGED <<repositories, saved, saved_workspaces, indexing_cancels, graph_cancels,
                   cancelled, edges, head, worktree, prepo, gx, disp, queue,
                   resp, reqs, built>>

(* indexer.rs 108-121 and 334-345: flush the rest, count the rows, return *)
IndexFlush(p) ==
    /\ UNCHANGED <<state_cell, workspaces, receiver>>
    /\ pc[p] = "ix_walk"
    /\ ix[p].pos > Len(ix[p].items)
    /\ LET b == ix[p]
           r == prepo[p]
       IN \E out \in (IF b.buf = <<>> THEN {"ok"} ELSE EmbedOutcomes) :
            /\ chunks' = IF b.buf = <<>> THEN chunks ELSE ChunksAfter(b.buf, out)
            /\ IF out = "store_fail"
               THEN Return(p, ERR_STORE, 0, FALSE, None)
               ELSE Return(p, "ok", count_rows_filtered(chunks', r),
                           IF b.buf = <<>> THEN b.pending ELSE PendingAfter(b.pending, out),
                           b.head_commit)
    /\ UNCHANGED <<repositories, saved, saved_workspaces, indexing_cancels, graph_cancels,
                   cancelled, edges, head, worktree, prepo, gx, disp, queue,
                   resp, reqs, built>>

----------------------------------------------------------------------------
(* ops.rs 84-153: the task spawned by op_add_repository *)

(* ops.rs 86-123: the two read sections of the task. The first only     *)
(* opens the table; when the table cannot be opened or created its error   *)
(* arm (ops.rs 91-101) asks for the write lock while the read guard of the *)
(* block is still alive, so the task waits at "t_tblerr" for a lock that   *)
(* its own guard keeps taken. The second is held for the whole index run.  *)
TaskBegin(i) ==
    /\ UNCHANGED <<state_cell, workspaces, receiver>>
    /\ pc[i] = "t_lock"
    /\ CanRead(i)
    /\ queue' = Deq(i)
    /\ readers' = readers \cup {i}
    /\ \/ /\ ix' = [ix EXCEPT ![i] = BeginIndex(i, prepo[i])]
          /\ pc' = [pc EXCEPT ![i] = "ix_walk"]
       \/ /\ pc' = [pc EXCEPT ![i] = "t_tblerr"]
          /\ UNCHANGED ix
    /\ UNCHANGED <<repositories, saved, saved_workspaces, indexing_cancels, graph_cancels,
                   cancelled, chunks, edges, head, worktree, prepo, gx, disp,
                   resp, reqs, built>>

(* ops.rs 128-138 and 331-342: the Ok arm's metadata update *)
MetaAfterOk(m, b) ==
    [m EXCEPT !.indexing = FALSE, !.chunk_count = b.count,
              !.embed_pending = b.pending, !.last_indexed_commit = b.head_commit,
              !.last_sync_error = None]

(* ops.rs 144-151 and 351-357: the Err arm's metadata update. The first  *)
(* definition is the variant that also resets chunk_count.                 *)
MetaAfterErr_resets_count(m, b) ==
    [m EXCEPT !.indexing = FALSE, !.last_sync_error = b.res, !.chunk_count = 0]
MetaAfterErr(m, b) ==
    [m EXCEPT !.indexing = FALSE, !.last_sync_error = b.res]

(* ops.rs 125-152 and 328-358: the registry after a body has returned.     *)
(* The first definition is the variant in which a failed run drops the     *)
(* entry of its repository.                                                *)
FinishMeta_drops_failed(r, b) ==
    IF r \in DOMAIN repositories
    THEN IF b.res = "ok" THEN [repositories EXCEPT ![r] = MetaAfterOk(@, b)]
         ELSE Del(repositories, r)
    ELSE repositories
FinishMeta(r, b) ==
    IF r \in DOMAIN repositories
    THEN [repositories EXCEPT ![r] = IF b.res = "ok" THEN MetaAfterOk(@, b)
                                     ELSE MetaAfterErr(@, b)]
    ELSE repositories

(* ops.rs 125-152: completion of the add task under the write lock *)
TaskFinish(i) ==
    /\ UNCHANGED <<state_cell, workspaces, receiver>>
    /\ i \in IndexTasks
    /\ pc[i] = "fin"
    /\ CanWrite(i)
    /\ queue' = Deq(i)
    /\ LET r == prepo[i]
           b == ix[i]
       IN /\ indexing_cancels' = Del(indexing_cancels, r)
          /\ repositories' = FinishMeta(r, b)
          /\ saved' = repositories'
          /\ saved_workspaces' = workspaces'
          /\ IF b.res = "ok"
             THEN /\ pc' = [pc EXCEPT ![i] = "sgb_check"]
                  /\ UNCHANGED prepo
             ELSE /\ pc' = [pc EXCEPT ![i] = "free"]
                  /\ prepo' = [prepo EXCEPT ![i] = None]
    /\ ix' = [ix EXCEPT ![i] = IxIdle]
    /\ UNCHANGED <<graph_cancels, cancelled, chunks, edges, head, worktree,
                   gx, disp, readers, resp, reqs, built>>

----------------------------------------------------------------------------
(* graph.rs: pure helpers. A name is the sequence of its tokens, so that   *)
(* "crate::auth::validate" is <<"crate", "::", "auth", "::", "validate">>  *)
(* and contains() and rsplit() can be computed; "" is <<>>.                *)

Contains(name, sep) == sep \in Range(name)

(* str::rsplit(sep).next(): the part after the last sep, the whole string  *)
(* when sep does not occur. It never returns None.                         *)
RECURSIVE RsplitFirst(_, _)
RsplitFirst(name, sep) ==
    IF name = <<>> THEN <<>>
    ELSE IF name[Len(name)] = sep THEN <<>>
    ELSE RsplitFirst(SubSeq(name, 1, Len(name) - 1), sep) \o <<name[Len(name)]>>

SymbolInfo(row) == [name |-> row.symbol_name, symbol_type |-> row.symbol_type,
                    start_line |-> row.start_line, end_line |-> row.end_line]

(* graph.rs 255-275: file_path -> symbols, from every chunk row of the repo *)
build_symbol_index(table, repo_id) ==
    LET rows == {t \in table : t.repo_id = repo_id}
        files == {t.file_path : t \in rows}
    IN [f \in files |-> SeqOfSet({SymbolInfo(t) : t \in {u \in rows : u.file_path = f}})]

(* graph.rs 78-132: symbols extracted directly, per file of a known language *)
DirectIndex(tree) ==
    LET fs == {e \in Range(tree) : e.kind = "file" /\ e.lang # "unknown" /\ e.symbols # <<>>}
    IN [p \in {e.path : e \in fs} |-> (CHOOSE e \in fs : e.path = p).symbols]

(* graph.rs 136-141: entry(file).or_insert_with(direct symbols) *)
MergeIndex(global, direct) ==
    [f \in DOMAIN global \cup DOMAIN direct |->
        IF f \in DOMAIN global THEN global[f] ELSE direct[f]]

(* graph.rs 277-298 *)
RECURSIVE ContainingLoop(_, _, _, _)
ContainingLoop(symbols, k, line, best) ==
    IF k > Len(symbols) THEN best
    ELSE LET sym == symbols[k]
             inside == line >= sym.start_line /\ line <= sym.end_line
             better == best = 0 \/
                       (sym.end_line - sym.start_line) <
                       (symbols[best].end_line - symbols[best].start_line)
         IN ContainingLoop(symbols, k + 1, line, IF inside /\ better THEN k ELSE best)

(* find_containing_symbol is preceded by the variant that stops at the    *)
(* first symbol containing the line.                                       *)
find_containing_symbol_first(symbols, line) ==
    LET holds == {k \in 1..Len(symbols) : line >= symbols[k].start_line
                                          /\ line <= symbols[k].end_line}
    IN IF holds = {} THEN <<>>
       ELSE symbols[CHOOSE k \in holds : \A j \in holds : k <= j].name

find_containing_symbol(symbols, line) ==
    LET best == ContainingLoop(symbols, 1, line, 0)
    IN IF best = 0 THEN <<>> ELSE symbols[best].name

(* graph.rs 300-326: later imports overwrite earlier ones with the same key *)
extract_import_map(refs) ==
    LET imports == {k \in 1..Len(refs) : refs[k].edge_type = "imports"}
        key(k) == RsplitFirst(refs[k].target_name, "::")
        lastOf(n) == CHOOSE k \in imports :
                        key(k) = n /\ \A j \in imports : key(j) = n => j <= k
    IN [n \in {key(k) : k \in imports} |-> refs[lastOf(n)].target_name]

(* find_symbol_file is preceded by the variant that returns an owner even *)
(* when several files own the name.                                        *)
find_symbol_file_any_owner(name, symbol_index) ==
    LET owners == {f \in DOMAIN symbol_index :
                     \E k \in 1..Len(symbol_index[f]) : symbol_index[f][k].name = name}
    IN IF owners # {} THEN CHOOSE f \in owners : TRUE ELSE ""

(* graph.rs 375-397: the unique file owning the name, "" when none or many *)
find_symbol_file(name, symbol_index) ==
    LET owners == {f \in DOMAIN symbol_index :
                     \E k \in 1..Len(symbol_index[f]) : symbol_index[f][k].name = name}
    IN IF Cardinality(owners) = 1 THEN CHOOSE f \in owners : TRUE ELSE ""

(* graph.rs 328-373: <<target_qualified, target_file>> *)
resolve_reference(target_name, edge_type, current_file, import_map, symbol_index) ==
    IF Contains(target_name, "::") \/ (edge_type = "imports" /\ Contains(target_name, "/"))
    THEN <<target_name, find_symbol_file(RsplitFirst(target_name, "::"), symbol_index)>>
    ELSE IF target_name \in DOMAIN import_map
    THEN <<import_map[target_name], find_symbol_file(target_name, symbol_index)>>
    ELSE IF current_file \in DOMAIN symbol_index
            /\ \E k \in 1..Len(symbol_index[current_file]) :
                  symbol_index[current_file][k].name = target_name
    THEN <<target_name, current_file>>
    ELSE IF find_symbol_file(target_name, symbol_index) # ""
    THEN <<target_name, find_symbol_file(target_name, symbol_index)>>
    ELSE <<<<>>, "">>

(* graph.rs 18-23 *)
edge_id(repo_id, source_file, line, target_name, edge_type) ==
    <<repo_id, source_file, line, target_name, edge_type>>

(* graph.rs 201-222: the edge record of one reference *)
EdgeRecord(repo_id, f, reference, file_symbols, import_map, merged) ==
    LET res == resolve_reference(reference.target_name, reference.edge_type,
                                 f.path, import_map, merged)
    IN [id |-> edge_id(repo_id, f.path, reference.line, reference.target_name,
                       reference.edge_type),
        repo_id |-> repo_id, source_file |-> f.path,
        source_symbol |-> find_containing_symbol(file_symbols, reference.line),
        source_line |-> reference.line, target_name |-> reference.target_name,
        target_qualified |-> res[1], target_file |-> res[2],
        edge_type |-> reference.edge_type]

(* graph.rs 201-229: push the edges of one file. Every time the batch     *)
(* reaches EDGE_BATCH records it is counted, upserted and cleared.         *)
RECURSIVE UpsertBatches(_, _, _)
UpsertBatches(all, j, table) ==
    IF j * EDGE_BATCH > Len(all) THEN table
    ELSE UpsertBatches(all, j + 1,
             upsert_edges(table, SubSeq(all, (j - 1) * EDGE_BATCH + 1, j * EDGE_BATCH)))

PushEdges(recs, buf, total, table) ==
    LET all == buf \o recs
        full == Len(all) \div EDGE_BATCH
    IN [buf |-> SubSeq(all, full * EDGE_BATCH + 1, Len(all)),
        total |-> total + full * EDGE_BATCH,
        table |-> UpsertBatches(all, 1, table)]

FileEdges(repo_id, f, direct, merged) ==
    LET import_map == extract_import_map(f.refs)
        file_symbols == IF f.path \in DOMAIN direct THEN direct[f.path] ELSE <<>>
    IN [k \in 1..Len(f.refs) |->
          EdgeRecord(repo_id, f, f.refs[k], file_symbols, import_map, merged)]

----------------------------------------------------------------------------
(* ops.rs 668-748: spawn_graph_build, called by the add task and by the    *)
(* dispatcher (op_sync, op_build_graph), and what its caller does next.    *)

(* ops.rs 359-364: the sync loop goes on to its next repository *)
SyncAdvance ==
    LET rest == Tail(disp.todo)
    IN IF rest = <<>>
       THEN [pc |-> "idle", repo |-> None, disp |-> DispIdle,
             resp |-> Written("sync", None, "synced")]
       ELSE [pc |-> "sync_mark", repo |-> rest[1].repo,
             disp |-> [disp EXCEPT !.todo = rest], resp |-> resp]

AfterSpawn(p) ==
    IF p \in IndexTasks
    THEN [pc |-> "free", repo |-> None, disp |-> disp, resp |-> resp]
    ELSE IF disp.op = "build_graph"
    THEN [pc |-> "idle", repo |-> None, disp |-> DispIdle,
          resp |-> Written("build_graph", prepo[p], "building")]
    ELSE SyncAdvance

(* ops.rs 670-675 *)
SgbCheck(p) ==
    /\ UNCHANGED <<state_cell, workspaces, receiver>>
    /\ pc[p] = "sgb_check"
    /\ CanRead(p)
    /\ queue' = Deq(p)
    /\ IF is_graph_building(prepo[p])
       THEN /\ pc' = [pc EXCEPT ![p] = AfterSpawn(p).pc]
            /\ prepo' = [prepo EXCEPT ![p] = AfterSpawn(p).repo]
            /\ disp' = AfterSpawn(p).disp
            /\ resp' = AfterSpawn(p).resp
       ELSE /\ pc' = [pc EXCEPT ![p] = "sgb_insert"]
            /\ UNCHANGED <<prepo, disp, resp>>
    /\ UNCHANGED <<repositories, saved, saved_workspaces, indexing_cancels, graph_cancels,
                   cancelled, chunks, edges, head, worktree, ix, gx, readers, reqs, built>>

(* ops.rs 677-690: insert the sender, mark graph_building, save, spawn *)
SgbInsert(p) ==
    /\ UNCHANGED <<state_cell, workspaces, receiver>>
    /\ pc[p] = "sgb_insert"
    /\ CanWrite(p)
    /\ HasFree(GraphTasks)
    /\ queue' = Deq(p)
    /\ LET r == prepo[p]
           g == FreeSlot(GraphTasks)
       IN /\ graph_cancels' = Put(graph_cancels, r, g)
          /\ repositories' = IF r \in DOMAIN repositories
                             THEN [repositories EXCEPT ![r].graph_building = TRUE]
                             ELSE repositories
          /\ saved' = repositories'
          /\ saved_workspaces' = workspaces'
          /\ cancelled' = [cancelled EXCEPT ![g] = FALSE]
          /\ pc' = [pc EXCEPT ![p] = AfterSpawn(p).pc, ![g] = "g_lock"]
          /\ prepo' = [prepo EXCEPT ![p] = AfterSpawn(p).repo, ![g] = r]
    /\ disp' = AfterSpawn(p).disp
    /\ resp' = AfterSpawn(p).resp
    /\ UNCHANGED <<indexing_cancels, chunks, edges, head, worktree, ix, gx,
                   readers, reqs, built>>

(* ops.rs 754-784: op_build_graph *)
BuildGraphCheck ==
    /\ UNCHANGED <<state_cell, workspaces, receiver>>
    /\ pc[Disp] = "bg_check"
    /\ CanRead(Disp)
    /\ queue' = Deq(Disp)
    /\ LET r == prepo[Disp]
       IN IF r \notin DOMAIN repositories \/ is_graph_building(r)
          THEN /\ Respond("build_graph", r,
                          IF r \notin DOMAIN repositories THEN "unknown_repository"
                          ELSE "already_building")
               /\ pc' = [pc EXCEPT ![Disp] = "idle"]
               /\ prepo' = [prepo EXCEPT ![Disp] = None]
               /\ disp' = DispIdle
          ELSE /\ pc' = [pc EXCEPT ![Disp] = "sgb_check"]
               /\ UNCHANGED <<resp, prepo, disp>>
    /\ UNCHANGED <<repositories, saved, saved_workspaces, indexing_cancels, graph_cancels,
                   cancelled, chunks, edges, head, worktree, ix, gx, readers, reqs, built>>

----------------------------------------------------------------------------
(* ops.rs 690-747 and graph.rs 27-241: the graph-building task *)

GReturn(g, res, total, hc) ==
    /\ gx' = [gx EXCEPT ![g] = [GxIdle EXCEPT !.res = res, !.total = total,
                                              !.head_commit = hc]]
    /\ readers' = readers \ {g}
    /\ pc' = [pc EXCEPT ![g] = "g_fin"]

(* ops.rs 691-723 and graph.rs 34-141: take the read lock, open both       *)
(* tables, delete the prior edges of the repository, read the chunks'      *)
(* symbols, walk the files for their symbols (the cancellation signal is   *)
(* read at the first entry of the walk; it cannot change while this reader *)
(* holds the lock) and merge the two indexes.                              *)
GraphBegin(g) ==
    /\ UNCHANGED <<state_cell, workspaces, receiver>>
    /\ pc[g] = "g_lock"
    /\ CanRead(g)
    /\ queue' = Deq(g)
    /\ LET r == prepo[g]
           global == build_symbol_index(chunks, r)
           direct == DirectIndex(worktree[r])
       IN \/ /\ ~cancelled[g]
             /\ readers' = readers \cup {g}
             /\ pc' = [pc EXCEPT ![g] = "g_refs"]
             /\ edges' = delete_repo_edges(edges, r)
             /\ gx' = [gx EXCEPT ![g] =
                          [GxIdle EXCEPT !.phase = "refs", !.pos = 1,
                                         !.items = worktree[r],
                                         !.head_commit = head[r],
                                         !.direct = direct,
                                         !.merged = MergeIndex(global, direct)]]
          \/ /\ cancelled[g]
             /\ edges' = delete_repo_edges(edges, r)
             /\ gx' = [gx EXCEPT ![g] = [GxIdle EXCEPT !.res = ERR_GRAPH_CANCELLED]]
             /\ pc' = [pc EXCEPT ![g] = "g_fin"]
             /\ UNCHANGED readers
          \/ /\ readers' = readers \cup {g}
             /\ pc' = [pc EXCEPT ![g] = "g_tblerr"]
             /\ UNCHANGED <<edges, gx>>
    /\ UNCHANGED <<repositories, saved, saved_workspaces, indexing_cancels, graph_cancels,
                   cancelled, chunks, head, worktree, prepo, ix, disp, resp, reqs, built>>

(* graph.rs 144-230: one entry of the second walk *)
GraphRefs(g) ==
    /\ UNCHANGED <<state_cell, workspaces, receiver>>
    /\ pc[g] = "g_refs"
    /\ gx[g].pos <= Len(gx[g].items)
    /\ LET b == gx[g]
           e == b.items[b.pos]
           out == PushEdges(FileEdges(prepo[g], e, b.direct, b.merged),
                            b.buf, b.total, edges)
       IN IF cancelled[g]
          THEN /\ GReturn(g, ERR_GRAPH_CANCELLED, 0, None)
               /\ UNCHANGED edges
          ELSE IF e.kind # "file" \/ e.lang = "unknown" \/ e.refs = <<>>
          THEN /\ gx' = [gx EXCEPT ![g].pos = b.pos + 1]
               /\ UNCHANGED <<edges, readers, pc>>
          ELSE /\ gx' = [gx EXCEPT ![g].pos = b.pos + 1, ![g].buf = out.buf,
                                   ![g].total = out.total]
               /\ edges' = out.table
               /\ UNCHANGED <<readers, pc>>
    /\ UNCHANGED <<repositories, saved, saved_workspaces, indexing_cancels, graph_cancels,
                   cancelled, chunks, head, worktree, prepo, ix, disp, queue,
                   resp, reqs, built>>

(* graph.rs 232-240: the last batch; the store may refuse it *)
GraphFlush(g) ==
    /\ UNCHANGED <<state_cell, workspaces, receiver>>
    /\ pc[g] = "g_refs"
    /\ gx[g].pos > Len(gx[g].items)
    /\ LET b == gx[g]
           r == prepo[g]
       IN \/ /\ edges' = IF b.buf = <<>> THEN edges ELSE upsert_edges(edges, b.buf)
             /\ GReturn(g, "ok", b.total + Len(b.buf), b.head_commit)
             /\ built' = [built EXCEPT ![r] =
                             [commit |-> b.head_commit,
                              rows |-> {t \in edges' : t.repo_id = r}]]
          \/ /\ b.buf # <<>>
             /\ GReturn(g, ERR_STORE, 0, None)
             /\ UNCHANGED <<edges, built>>
    /\ UNCHANGED <<repositories, saved, saved_workspaces, indexing_cancels, graph_cancels,
                   cancelled, chunks, head, worktree, prepo, ix, disp, queue,
                   resp, reqs>>

(* ops.rs 731-745: the metadata update of a finished graph build *)
GraphMeta(m, b) ==
    IF b.res = "ok"
    THEN [m EXCEPT !.graph_building = FALSE, !.graph_edge_count = b.total,
                   !.last_graph_commit = b.head_commit]
    ELSE [m EXCEPT !.graph_building = FALSE]

(* ops.rs 727-747 *)
GraphFinish(g) ==
    /\ UNCHANGED <<state_cell, workspaces, receiver>>
    /\ pc[g] = "g_fin"
    /\ CanWrite(g)
    /\ queue' = Deq(g)
    /\ LET r == prepo[g]
       IN /\ graph_cancels' = Del(graph_cancels, r)
          /\ repositories' = IF r \in DOMAIN repositories
                             THEN [repositories EXCEPT ![r] = GraphMeta(@, gx[g])]
                             ELSE repositories
    /\ saved' = repositories'
    /\ saved_workspaces' = workspaces'
    /\ gx' = [gx EXCEPT ![g] = GxIdle]
    /\ pc' = [pc EXCEPT ![g] = "free"]
    /\ prepo' = [prepo EXCEPT ![g] = None]
    /\ UNCHANGED <<indexing_cancels, cancelled, chunks, edges, head, worktree,
                   ix, disp, readers, resp, reqs, built>>

----------------------------------------------------------------------------
(* ops.rs 249-365: op_sync, run inline by the dispatcher *)

Perms(S) == {q \in [1..Cardinality(S) -> S] : \A a, b \in DOMAIN q : a # b => q[a] # q[b]}

(* ops.rs 252-274: the repositories to sync, in HashMap order *)
SyncList ==
    /\ UNCHANGED <<state_cell, workspaces, receiver>>
    /\ pc[Disp] = "sync_list"
    /\ CanRead(Disp)
    /\ queue' = Deq(Disp)
    /\ LET specific == prepo[Disp]
           todo == {r \in DOMAIN repositories :
                      /\ specific # None => r = specific
                      /\ ~repositories[r].indexing
                      /\ r \notin DOMAIN indexing_cancels}
       IN IF todo = {}
          THEN /\ Respond("sync", specific, "nothing_to_sync")
               /\ pc' = [pc EXCEPT ![Disp] = "idle"]
               /\ prepo' = [prepo EXCEPT ![Disp] = None]
               /\ disp' = DispIdle
          ELSE \E order \in Perms(todo) :
               /\ disp' = [disp EXCEPT !.todo =
                              [k \in 1..Len(order) |->
                                  [repo |-> order[k],
                                   last |-> repositories[order[k]].last_indexed_commit]]]
               /\ pc' = [pc EXCEPT ![Disp] = "sync_mark"]
               /\ prepo' = [prepo EXCEPT ![Disp] = order[1]]
               /\ UNCHANGED resp
    /\ UNCHANGED <<repositories, saved, saved_workspaces, indexing_cancels, graph_cancels,
                   cancelled, chunks, edges, head, worktree, ix, gx, readers, reqs, built>>

(* ops.rs 280-285: mark as indexing (not saved) *)
SyncMark ==
    /\ UNCHANGED <<state_cell, workspaces, receiver>>
    /\ pc[Disp] = "sync_mark"
    /\ CanWrite(Disp)
    /\ queue' = Deq(Disp)
    /\ LET r == prepo[Disp]
       IN repositories' = IF r \in DOMAIN repositories
                          THEN [repositories EXCEPT ![r].indexing = TRUE]
                          ELSE repositories
    /\ pc' = [pc EXCEPT ![Disp] = "sync_ins"]
    /\ UNCHANGED <<saved, saved_workspaces, indexing_cancels, graph_cancels, cancelled, chunks,
                   edges, head, worktree, prepo, ix, gx, disp, readers, resp, reqs, built>>

(* ops.rs 287-291 *)
SyncInsert ==
    /\ UNCHANGED <<state_cell, workspaces, receiver>>
    /\ pc[Disp] = "sync_ins"
    /\ CanWrite(Disp)
    /\ queue' = Deq(Disp)
    /\ indexing_cancels' = Put(indexing_cancels, prepo[Disp], Disp)
    /\ cancelled' = [cancelled EXCEPT ![Disp] = FALSE]
    /\ pc' = [pc EXCEPT ![Disp] = "sync_lock"]
    /\ UNCHANGED <<repositories, saved, saved_workspaces, graph_cancels, chunks, edges, head,
                   worktree, prepo, ix, gx, disp, readers, resp, reqs, built>>

(* The tree-to-tree diff of indexer.rs 259-284 *)
Paths(tree) == {e.path : e \in {x \in Range(tree) : x.kind = "file"}}
FileAt(tree, path) == CHOOSE e \in Range(tree) : e.kind = "file" /\ e.path = path
DeletedPaths(old, new) == Paths(old) \ Paths(new)
ChangedPaths(old, new) ==
    {p \in Paths(new) : p \notin Paths(old) \/ FileAt(old, p) # FileAt(new, p)}

(* indexer.rs 286-298: delete the rows of deleted and changed paths and    *)
(* set up the loop over the changed paths                                  *)
BeginSync(r, last) ==
    LET old == TreeAt(last)
        new == worktree[r]
        changed == SeqOfSet(ChangedPaths(old, new))
    IN [IxIdle EXCEPT !.kind = "sync", !.pos = 1,
                      !.items = [k \in 1..Len(changed) |-> FileAt(new, changed[k])],
                      !.head_commit = head[r]]

(* indexer.rs 243-251: the stored commit is HEAD *)
SyncNoOp(r) ==
    [IxIdle EXCEPT !.res = "ok", !.count = count_rows_filtered(chunks, r),
                   !.head_commit = head[r]]

(* ops.rs 293-326: the read section of one sync iteration. ensure_table's  *)
(* error leaves op_sync through `?`; a stored commit equal to HEAD returns *)
(* at once (indexer.rs 243-251); a stored commit that find_commit does not *)
(* find makes sync_repository return its error (indexer.rs 253-255).       *)
SyncBegin ==
    /\ UNCHANGED <<state_cell, workspaces, receiver>>
    /\ pc[Disp] = "sync_lock"
    /\ CanRead(Disp)
    /\ queue' = Deq(Disp)
    /\ LET r == prepo[Disp]
           last == disp.todo[1].last
       IN \/ /\ Respond("sync", r, "error")
             /\ pc' = [pc EXCEPT ![Disp] = "idle"]
             /\ prepo' = [prepo EXCEPT ![Disp] = None]
             /\ disp' = DispIdle
             /\ UNCHANGED <<ix, chunks, readers>>
          \/ /\ last = None
             /\ ix' = [ix EXCEPT ![Disp] = BeginIndex(Disp, r)]
             /\ readers' = readers \cup {Disp}
             /\ pc' = [pc EXCEPT ![Disp] = "ix_walk"]
             /\ UNCHANGED <<chunks, prepo, disp, resp>>
          \/ /\ last # None
             /\ head[r] = last
             /\ ix' = [ix EXCEPT ![Disp] = SyncNoOp(r)]
             /\ pc' = [pc EXCEPT ![Disp] = "fin"]
             /\ UNCHANGED <<chunks, readers, prepo, disp, resp>>
          \/ /\ last # None
             /\ head[r] # last
             /\ last \notin Odb
             /\ ix' = [ix EXCEPT ![Disp] = [IxIdle EXCEPT !.res = ERR_NO_COMMIT]]
             /\ pc' = [pc EXCEPT ![Disp] = "fin"]
             /\ UNCHANGED <<chunks, readers, prepo, disp, resp>>
          \/ /\ last # None
             /\ head[r] # last
             /\ last \in Odb
             /\ chunks' = delete_file_chunks(chunks, r,
                              DeletedPaths(TreeAt(last), worktree[r])
                              \cup ChangedPaths(TreeAt(last), worktree[r]))
             /\ ix' = [ix EXCEPT ![Disp] = BeginSync(r, last)]
             /\ readers' = readers \cup {Disp}
             /\ pc' = [pc EXCEPT ![Disp] = "ix_walk"]
             /\ UNCHANGED <<prepo, disp, resp>>
    /\ UNCHANGED <<repositories, saved, saved_workspaces, indexing_cancels, graph_cancels,
                   cancelled, edges, head, worktree, gx, reqs, built>>

(* ops.rs 328-358: completion of one sync iteration under the write lock *)
SyncFinish ==
    /\ UNCHANGED <<state_cell, workspaces, receiver>>
    /\ pc[Disp] = "fin"
    /\ CanWrite(Disp)
    /\ queue' = Deq(Disp)
    /\ LET r == prepo[Disp]
           b == ix[Disp]
       IN /\ indexing_cancels' = Del(indexing_cancels, r)
          /\ repositories' = FinishMeta(r, b)
          /\ saved' = repositories'
          /\ saved_workspaces' = workspaces'
          /\ IF b.res = "ok"
             THEN /\ pc' = [pc EXCEPT ![Disp] = "sgb_check"]
                  /\ disp' = [disp EXCEPT !.synced = @ + 1]
                  /\ UNCHANGED <<prepo, resp>>
             ELSE /\ pc' = [pc EXCEPT ![Disp] = SyncAdvance.pc]
                  /\ prepo' = [prepo EXCEPT ![Disp] = SyncAdvance.repo]
                  /\ disp' = SyncAdvance.disp
                  /\ resp' = SyncAdvance.resp
    /\ ix' = [ix EXCEPT ![Disp] = IxIdle]
    /\ UNCHANGED <<graph_cancels, cancelled, chunks, edges, head, worktree,
                   gx, readers, reqs, built>>

----------------------------------------------------------------------------
(* The environment: a new commit moves HEAD and the work tree. Only the   *)
(* start of a body reads them, so the commit is taken at the moment a body *)
(* of the repository is about to start.                                    *)
BeginPcs == {"t_lock", "sync_lock", "g_lock"}

GitCommit(r) ==
    /\ UNCHANGED <<state_cell, workspaces, receiver>>
    /\ head[r] = "c1"
    /\ \E p \in Procs : pc[p] \in BeginPcs /\ prepo[p] = r /\ CanRead(p)
    /\ head' = [head EXCEPT ![r] = "c2"]
    /\ worktree' = [worktree EXCEPT ![r] = TreeAt("c2")]
    /\ UNCHANGED <<repositories, saved, saved_workspaces, indexing_cancels, graph_cancels,
                   cancelled, chunks, edges, pc, prepo, ix, gx, disp, readers,
                   queue, resp, reqs, built>>

(* ops.rs 17-33: add_repository names its repository by the id of the     *)
(* canonical form of the path it is given                                  *)
AddRequest(path) ==
    Request("add", compute_repo_id(canonicalize(path)), canonicalize(path))

Ops == {"add", "remove", "sync", "build_graph", "shutdown"}

Next ==
    \/ \E op \in Ops \ {"add"}, r \in Repos : Request(op, r, None)
    \/ \E path \in InputPaths : AddRequest(path)
    \/ AddCheck
    \/ AddRegister
    \/ AddInsert
    \/ RemoveRepository
    \/ Shutdown
    \/ SyncList
    \/ SyncMark
    \/ SyncInsert
    \/ SyncBegin
    \/ SyncFinish
    \/ BuildGraphCheck
    \/ \E p \in IndexProcs : IndexWalk(p)
    \/ \E p \in IndexProcs : IndexFlush(p)
    \/ \E p \in IndexProcs : SgbCheck(p)
    \/ \E p \in IndexProcs : SgbInsert(p)
    \/ \E i \in IndexTasks : TaskBegin(i)
    \/ \E i \in IndexTasks : TaskFinish(i)
    \/ \E g \in GraphTasks : GraphBegin(g)
    \/ \E g \in GraphTasks : GraphRefs(g)
    \/ \E g \in GraphTasks : GraphFlush(g)
    \/ \E g \in GraphTasks : GraphFinish(g)
    \/ \E p \in Procs : LockWait(p)
    \/ \E r \in Repos : GitCommit(r)

Spec == Init /\ [][Next]_vars

(* The tasks under fair scheduling: the requests that start or cancel a     *)
(* task, for a repository whose files do not change. The tokio runtime      *)
(* polls every task that can run and the lock is granted in FIFO order.     *)
(* Every step of NextTasks moves a task or the dispatcher forward and no    *)
(* state is visited twice, so a behaviour that takes a step whenever one is *)
(* possible is fair to every task.                                          *)
NextTasks ==
    \/ \E op \in {"remove", "sync", "build_graph"}, r \in Repos : Request(op, r, None)
    \/ AddRequest("/w/r1")
    \/ AddCheck
    \/ AddRegister
    \/ AddInsert
    \/ RemoveRepository
    \/ SyncList
    \/ SyncMark
    \/ SyncInsert
    \/ SyncBegin
    \/ SyncFinish
    \/ BuildGraphCheck
    \/ \E p \in IndexProcs : IndexWalk(p)
    \/ \E p \in IndexProcs : IndexFlush(p)
    \/ \E p \in IndexProcs : SgbCheck(p)
    \/ \E p \in IndexProcs : SgbInsert(p)
    \/ \E i \in IndexTasks : TaskBegin(i)
    \/ \E i \in IndexTasks : TaskFinish(i)
    \/ \E g \in GraphTasks : GraphBegin(g)
    \/ \E g \in GraphTasks : GraphRefs(g)
    \/ \E g \in GraphTasks : GraphFlush(g)
    \/ \E g \in GraphTasks : GraphFinish(g)
    \/ \E p \in Procs : LockWait(p)

SpecTasksLive == Init /\ [][NextTasks]_vars /\ WF_vars(NextTasks)

(* Workspaces: add_repository, remove_repository and create_workspace in    *)
(* any order, with the tasks add_repository starts. r2 is the id of no      *)
(* repository. Every request names at least one repository, so that an      *)
(* empty workspace is one that remove_repository has emptied.               *)
NextWorkspace ==
    \/ Request("remove", "r1", None)
    \/ AddRequest("/w/r1")
    \/ \E name \in {"w1", "w2"},
          repo_ids \in {<<"r1">>, <<"r2">>, <<"r1", "r2">>, <<"r1", "r1">>} :
             CreateWorkspaceRequest(name, repo_ids)
    \/ CreateWorkspace
    \/ AddCheck
    \/ AddRegister
    \/ AddInsert
    \/ RemoveRepository
    \/ \E p \in IndexProcs : IndexWalk(p)
    \/ \E p \in IndexProcs : IndexFlush(p)
    \/ \E p \in IndexProcs : SgbCheck(p)
    \/ \E p \in IndexProcs : SgbInsert(p)
    \/ \E i \in IndexTasks : TaskBegin(i)
    \/ \E i \in IndexTasks : TaskFinish(i)
    \/ \E g \in GraphTasks : GraphBegin(g)
    \/ \E g \in GraphTasks : GraphRefs(g)
    \/ \E g \in GraphTasks : GraphFlush(g)
    \/ \E g \in GraphTasks : GraphFinish(g)
    \/ \E p \in Procs : LockWait(p)

SpecWorkspace == Init /\ [][NextWorkspace]_vars

----------------------------------------------------------------------------
(* Graph builds on a large file. The start is the state in which the task  *)
(* of add_repository has indexed commit c3, has written its result         *)
(* (ops.rs 125-138) and is about to chain the graph build (ops.rs 141).    *)

InitGraph ==
    /\ state_cell = DEFAULT_DATA_DIR
    /\ workspaces = EmptyMap
    /\ saved_workspaces = EmptyMap
    /\ receiver = AppState_new
    /\ chunks = upsert_chunks({}, WithVectors(chunk_file(TreeAt("c3")[2], "r1"), TRUE))
    /\ repositories =
          Put(EmptyMap, "r1",
              [NewRepoMeta("r1", "/w/r1") EXCEPT !.indexing = FALSE,
                                  !.chunk_count = count_rows_filtered(chunks, "r1"),
                                  !.last_indexed_commit = "c3"])
    /\ saved = repositories
    /\ indexing_cancels = EmptyMap
    /\ graph_cancels = EmptyMap
    /\ cancelled = [p \in Procs |-> FALSE]
    /\ edges = {}
    /\ head = [r \in Repos |-> "c3"]
    /\ worktree = [r \in Repos |-> TreeAt("c3")]
    /\ pc = [p \in Procs |-> IF p = Disp THEN "idle"
                              ELSE IF p = <<"i", 1>> THEN "sgb_check" ELSE "free"]
    /\ prepo = [p \in Procs |-> IF p = <<"i", 1>> THEN "r1" ELSE None]
    /\ ix = [p \in IndexProcs |-> IxIdle]
    /\ gx = [g \in GraphTasks |-> GxIdle]
    /\ disp = DispIdle
    /\ readers = {}
    /\ queue = <<>>
    /\ resp = [NoResp EXCEPT !.op = "add", !.repo = "r1", !.status = "indexing",
                        !.n = 1, !.id = 1]
    /\ reqs = 1
    /\ built = [r \in Repos |-> NoBuild]

NextGraph ==
    \/ \E r \in Repos : Request("build_graph", r, None)
    \/ Request("status", None, None)
    \/ BuildGraphCheck
    \/ Status
    \/ \E p \in IndexProcs : SgbCheck(p)
    \/ \E p \in IndexProcs : SgbInsert(p)
    \/ \E g \in GraphTasks : GraphBegin(g)
    \/ \E g \in GraphTasks : GraphRefs(g)
    \/ \E g \in GraphTasks : GraphFlush(g)
    \/ \E g \in GraphTasks : GraphFinish(g)
    \/ \E p \in Procs : LockWait(p)

SpecGraph == InitGraph /\ [][NextGraph]_vars


----------------------------------------------------------------------------
(* Syncs of a repository the service finds registered at start-up. The     *)
(* start is the state AppState::initialize (state.rs 73-99) loads: r1 was  *)
(* indexed at the stored commit (or never with success) and HEAD may have   *)
(* moved since; r2 is an entry that a process which ended in the middle of *)
(* its index left behind with indexing = true, along with one of its rows. *)

IndexRows(tree, repo_id) ==
    UNION {Range(WithVectors(chunk_file(e, repo_id), TRUE)) :
             e \in {x \in Range(tree) : x.kind = "file"}}

SyncScenarios ==
    {[last |-> None, head |-> "s2"], [last |-> "s1", head |-> "s1"],
     [last |-> "s1", head |-> "s2"], [last |-> "sx", head |-> "s2"]}

InitSync ==
    \E sc \in SyncScenarios :
        /\ state_cell = DEFAULT_DATA_DIR
        /\ workspaces = EmptyMap
        /\ saved_workspaces = EmptyMap
        /\ receiver = AppState_new
        /\ chunks = (IF sc.last = None THEN {} ELSE IndexRows(TreeAt(sc.last), "r1"))
                    \cup IndexRows(<<File("mod.rs", "rust", 10, <<>>, <<>>)>>, "r2")
        /\ repositories =
              Put(Put(EmptyMap, "r2", NewRepoMeta("r2", "/w/r2")), "r1",
                  [NewRepoMeta("r1", "/w/r1") EXCEPT
                      !.indexing = FALSE,
                      !.chunk_count = count_rows_filtered(chunks, "r1"),
                      !.last_indexed_commit = sc.last])
        /\ saved = repositories
        /\ indexing_cancels = EmptyMap
        /\ graph_cancels = EmptyMap
        /\ cancelled = [p \in Procs |-> FALSE]
        /\ edges = {}
        /\ head = [r \in Repos |-> sc.head]
        /\ worktree = [r \in Repos |-> TreeAt(sc.head)]
        /\ pc = [p \in Procs |-> IF p = Disp THEN "idle" ELSE "free"]
        /\ prepo = [p \in Procs |-> None]
        /\ ix = [p \in IndexProcs |-> IxIdle]
        /\ gx = [g \in GraphTasks |-> GxIdle]
        /\ disp = DispIdle
        /\ readers = {}
        /\ queue = <<>>
        /\ resp = NoResp
        /\ reqs = 0
        /\ built = [r \in Repos |-> NoBuild]

NextSync ==
    \/ \E r \in Repos : Request("sync", r, None)
    \/ SyncList
    \/ SyncMark
    \/ SyncInsert
    \/ SyncBegin
    \/ SyncFinish
    \/ \E p \in IndexProcs : IndexWalk(p)
    \/ \E p \in IndexProcs : IndexFlush(p)
    \/ \E p \in IndexProcs : SgbCheck(p)
    \/ \E p \in IndexProcs : SgbInsert(p)
    \/ \E g \in GraphTasks : GraphBegin(g)
    \/ \E g \in GraphTasks : GraphRefs(g)
    \/ \E g \in GraphTasks : GraphFlush(g)
    \/ \E g \in GraphTasks : GraphFinish(g)
    \/ \E p \in Procs : LockWait(p)

SpecSync == InitSync /\ [][NextSync]_vars

----------------------------------------------------------------------------
(* Reference resolution. The start is the state in which the task of       *)
(* add_repository has indexed a work tree of three files and is about to   *)
(* chain the graph build (ops.rs 141). The files' symbols and the          *)
(* references of a.rs are drawn from the sets below: nested symbols and    *)
(* symbols with equal spans, names owned by no, one or several files, and  *)
(* references that are plain, qualified with "::", import paths with "/",  *)
(* or named by an import of the same file.                                 *)

ResolveTrees ==
    LET outer == Sym(<<"outer">>, "function", 1, 50)
        inner == Sym(<<"inner">>, "function", 10, 20)
        twin == Sym(<<"twin">>, "impl", 1, 50)
        symsA == {<<>>, <<outer>>, <<outer, inner>>, <<inner, outer>>,
                  <<outer, twin, Sym(<<"foo">>, "function", 30, 40)>>}
        symsB == {<<>>,
                  <<Sym(<<"foo">>, "function", 1, 10)>>,
                  <<Sym(<<"helper">>, "function", 1, 10)>>,
                  <<Sym(<<"foo">>, "function", 1, 10),
                    Sym(<<"helper">>, "function", 20, 30)>>}
        symsC == {<<>>,
                  <<Sym(<<"foo">>, "function", 1, 10)>>,
                  <<Sym(<<"helper">>, "function", 1, 10)>>}
        one == {Ref(n, "calls", l) :
                  n \in {<<"foo">>, <<"helper">>, <<"m", "::", "foo">>},
                  l \in {5, 15, 35, 60}}
               \cup {Ref(<<".", "/", "utils", "/", "helper">>, "imports", 2)}
        imp == Ref(<<"m", "::", "helper">>, "imports", 1)
        refsA == {<<x>> : x \in one} \cup {<<imp, x>> : x \in one}
    IN {<<DirEntry,
          File("a.rs", "rust", 120, sa, refs),
          File("b.rs", "rust", lb, sb, <<>>),
          File("c.rs", "rust", 120, sc, <<>>)>> :
           sa \in symsA, sb \in symsB, sc \in symsC,
           refs \in refsA, lb \in {50, 120}}

InitResolve ==
    \E tree \in ResolveTrees :
        /\ state_cell = DEFAULT_DATA_DIR
        /\ workspaces = EmptyMap
        /\ saved_workspaces = EmptyMap
        /\ receiver = AppState_new
        /\ chunks = IndexRows(tree, "r1")
        /\ repositories =
              Put(EmptyMap, "r1",
                  [NewRepoMeta("r1", "/w/r1") EXCEPT
                      !.indexing = FALSE,
                      !.chunk_count = count_rows_filtered(chunks, "r1"),
                      !.last_indexed_commit = "cr"])
        /\ saved = repositories
        /\ indexing_cancels = EmptyMap
        /\ graph_cancels = EmptyMap
        /\ cancelled = [p \in Procs |-> FALSE]
        /\ edges = {}
        /\ head = [r \in Repos |-> "cr"]
        /\ worktree = [r \in Repos |-> tree]
        /\ pc = [p \in Procs |-> IF p = Disp THEN "idle"
                                  ELSE IF p = <<"i", 1>> THEN "sgb_check" ELSE "free"]
        /\ prepo = [p \in Procs |-> IF p = <<"i", 1>> THEN "r1" ELSE None]
        /\ ix = [p \in IndexProcs |-> IxIdle]
        /\ gx = [g \in GraphTasks |-> GxIdle]
        /\ disp = DispIdle
        /\ readers = {}
        /\ queue = <<>>
        /\ resp = [NoResp EXCEPT !.op = "add", !.repo = "r1", !.status = "indexing",
                        !.n = 1, !.id = 1]
        /\ reqs = 1
        /\ built = [r \in Repos |-> NoBuild]

NextResolve ==
    \/ \E p \in IndexProcs : SgbCheck(p)
    \/ \E p \in IndexProcs : SgbInsert(p)
    \/ \E g \in GraphTasks : GraphBegin(g)
    \/ \E g \in GraphTasks : GraphRefs(g)
    \/ \E g \in GraphTasks : GraphFlush(g)
    \/ \E g \in GraphTasks : GraphFinish(g)

SpecResolve == InitResolve /\ [][NextResolve]_vars

----------------------------------------------------------------------------
(* ops.rs 853-938: call_graph, a breadth-first walk over the 'calls' edges *)
(* of one repository, run by the dispatcher under the read lock. The store *)
(* returns the rows of a query in no specified order and, past the limit,  *)
(* any CALL_GRAPH_LIMIT of them. edges_out is kept as the set of its       *)
(* records, each tagged with the id of the row it was made from, and the   *)
(* symbols a turn discovers are queued in one order. The filter's quote    *)
(* escaping (ops.rs 893) and the store's parsing of it cancel out and are  *)
(* not modelled.                                                           *)

CALL_GRAPH_LIMIT == 100

(* ops.rs 869-873: as_u64().unwrap_or(2).min(5); an absent or non-integer  *)
(* depth is a negative D here. The first definition is the variant without *)
(* the cap.                                                                *)
call_graph_depth_uncapped(D) == IF D < 0 THEN 2 ELSE D
call_graph_depth(D) == IF D < 0 THEN 2 ELSE Min(D, 5)

(* search.rs 504-515: the possible results of a query with a limit,       *)
(* preceded by the variant that ignores the limit.                         *)
query_edges_unlimited(rows, limit) == {rows}

RECURSIVE query_edges(_, _)
query_edges(rows, limit) ==
    IF Cardinality(rows) <= limit THEN {rows}
    ELSE UNION {query_edges(rows \ {x}, limit) : x \in rows}

(* main.rs 68-104 and ops.rs 853-873: a call_graph request is read *)
CallGraphRequest(r, symbol, direction, D) ==
    /\ UNCHANGED <<state_cell, workspaces, receiver>>
    /\ pc[Disp] = "idle"
    /\ reqs < MaxReqs
    /\ pc' = [pc EXCEPT ![Disp] = "cg_lock"]
    /\ prepo' = [prepo EXCEPT ![Disp] = r]
    /\ disp' = [DispIdle EXCEPT !.op = "call_graph", !.id = reqs + 1,
                                !.cg.symbol = symbol,
                                !.cg.direction = direction, !.cg.requested = D,
                                !.cg.depth = call_graph_depth(D)]
    /\ reqs' = reqs + 1
    /\ UNCHANGED <<repositories, saved, saved_workspaces, indexing_cancels, graph_cancels,
                   cancelled, chunks, edges, head, worktree, ix, gx, readers,
                   queue, resp, built>>

(* ops.rs 875-886: take the read lock, open the table, seed the queue *)
CallGraphBegin ==
    /\ UNCHANGED <<state_cell, workspaces, receiver>>
    /\ pc[Disp] = "cg_lock"
    /\ CanRead(Disp)
    /\ queue' = Deq(Disp)
    /\ \/ /\ readers' = readers \cup {Disp}
          /\ pc' = [pc EXCEPT ![Disp] = "cg_bfs"]
          /\ disp' = [disp EXCEPT !.cg.visited = {disp.cg.symbol},
                                  !.cg.queue = <<[symbol |-> disp.cg.symbol, depth |-> 0]>>]
          /\ UNCHANGED <<resp, prepo>>
       \/ /\ Respond("call_graph", prepo[Disp], "error")
          /\ pc' = [pc EXCEPT ![Disp] = "idle"]
          /\ prepo' = [prepo EXCEPT ![Disp] = None]
          /\ disp' = DispIdle
          /\ UNCHANGED readers
    /\ UNCHANGED <<repositories, saved, saved_workspaces, indexing_cancels, graph_cancels,
                   cancelled, chunks, edges, head, worktree, ix, gx, reqs, built>>

(* ops.rs 888-937: one turn of the while loop, or the return when the      *)
(* queue is empty                                                          *)
CallGraphStep ==
    /\ UNCHANGED <<state_cell, workspaces, receiver>>
    /\ pc[Disp] = "cg_bfs"
    /\ LET cg == disp.cg
           r == prepo[Disp]
           callers == cg.direction = "callers"
           done(status) ==
               /\ Respond("call_graph", r, status)
               /\ pc' = [pc EXCEPT ![Disp] = "idle"]
               /\ prepo' = [prepo EXCEPT ![Disp] = None]
               /\ disp' = DispIdle
               /\ readers' = readers \ {Disp}
       IN IF cg.queue = <<>> THEN done("ok")
          ELSE LET current == Head(cg.queue).symbol
                   current_depth == Head(cg.queue).depth
                   match == {t \in edges :
                               /\ t.repo_id = r
                               /\ t.edge_type = "calls"
                               /\ IF callers
                                  THEN t.target_name = current \/ t.target_qualified = current
                                  ELSE t.source_symbol = current}
               IN IF current_depth >= cg.depth
                  THEN /\ disp' = [disp EXCEPT !.cg.queue = Tail(cg.queue)]
                       /\ UNCHANGED <<pc, prepo, readers, resp>>
                  ELSE \/ \E results \in query_edges(match, CALL_GRAPH_LIMIT) :
                            LET next(t) == IF callers THEN t.source_symbol
                                           ELSE t.target_name
                                rec(t) ==
                                    [row |-> t.id,
                                     from |-> IF callers THEN t.source_symbol ELSE current,
                                     to |-> IF callers THEN current ELSE t.target_name,
                                     source_file |-> t.source_file,
                                     source_line |-> t.source_line,
                                     target_file |-> t.target_file,
                                     depth |-> current_depth + 1]
                                fresh == SeqOfSet(({next(t) : t \in results} \ {<<>>})
                                                  \ cg.visited)
                            IN /\ disp' = [disp EXCEPT
                                     !.cg.out = cg.out \cup {rec(t) : t \in results},
                                     !.cg.visited = cg.visited \cup Range(fresh),
                                     !.cg.queue = Tail(cg.queue) \o
                                         [i \in 1..Len(fresh) |->
                                             [symbol |-> fresh[i],
                                              depth |-> current_depth + 1]]]
                               /\ UNCHANGED <<pc, prepo, readers, resp>>
                       \/ done("error")
    /\ UNCHANGED <<repositories, saved, saved_workspaces, indexing_cancels, graph_cancels,
                   cancelled, chunks, edges, head, worktree, ix, gx, queue,
                   reqs, built>>

(* Edge tables that graph builds have left behind: the repository of the   *)
(* worked example (foo calls bar and qux, bar calls baz) with a caller of  *)
(* foo through an import, a deeper callee and an edge of another           *)
(* repository; a ring of seven functions, one of them recursive; and a     *)
(* function that calls another from 101 lines.                             *)
CallGraphTables ==
    LET E(repo, from, to, qualified, line, type) ==
            [id |-> edge_id(repo, "a.rs", line, to, type), repo_id |-> repo,
             source_file |-> "a.rs", source_symbol |-> from, source_line |-> line,
             target_name |-> to, target_qualified |-> qualified,
             target_file |-> "", edge_type |-> type]
        C(from, to, line) == E("r1", <<from>>, <<to>>, <<to>>, line, "calls")
        ring == <<"n0", "n1", "n2", "n3", "n4", "n5", "n6">>
    IN {{C("foo", "bar", 3), C("foo", "qux", 4), C("bar", "baz", 12),
         C("baz", "deep", 22),
         E("r1", <<"main">>, <<"foo">>, <<"m", "::", "foo">>, 41, "calls"),
         E("r1", <<>>, <<"m", "::", "foo">>, <<"m", "::", "foo">>, 1, "imports"),
         E("r1", <<"foo">>, <<"lib">>, <<"lib">>, 2, "imports"),
         E("r2", <<"foo">>, <<"zap">>, <<"zap">>, 3, "calls")},
        {C(ring[k], ring[(k % 7) + 1], 10 * k) : k \in 1..7}
            \cup {C("n0", "n0", 5)},
        {C("hub", "foo", k) : k \in 1..(CALL_GRAPH_LIMIT + 1)}
            \cup {C("main", "hub", 200), C("foo", "bar", 300)}}

InitQuery ==
    \E table \in CallGraphTables :
        /\ edges = table
        /\ state_cell = DEFAULT_DATA_DIR
        /\ workspaces = EmptyMap
        /\ saved_workspaces = EmptyMap
        /\ receiver = AppState_new
        /\ chunks = {}
        /\ repositories =
              Put(EmptyMap, "r1",
                  [NewRepoMeta("r1", "/w/r1") EXCEPT
                      !.indexing = FALSE,
                      !.graph_edge_count = Cardinality({t \in table : t.repo_id = "r1"}),
                      !.last_indexed_commit = "c3",
                      !.last_graph_commit = "c3"])
        /\ saved = repositories
        /\ indexing_cancels = EmptyMap
        /\ graph_cancels = EmptyMap
        /\ cancelled = [p \in Procs |-> FALSE]
        /\ head = [r \in Repos |-> "c3"]
        /\ worktree = [r \in Repos |-> TreeAt("c3")]
        /\ pc = [p \in Procs |-> IF p = Disp THEN "idle" ELSE "free"]
        /\ prepo = [p \in Procs |-> None]
        /\ ix = [p \in IndexProcs |-> IxIdle]
        /\ gx = [g \in GraphTasks |-> GxIdle]
        /\ disp = DispIdle
        /\ readers = {}
        /\ queue = <<>>
        /\ resp = NoResp
        /\ reqs = 0
        /\ built = [r \in Repos |-> NoBuild]

NextQuery ==
    \/ \E r \in {"r1", "r2"},
          symbol \in {<<"foo">>, <<"bar">>, <<"m", "::", "foo">>,
                      <<"n0">>, <<"hub">>, <<"nosuch">>},
          direction \in {"callers", "callees", None},
          D \in -1..6 : CallGraphRequest(r, symbol, direction, D)
    \/ CallGraphBegin
    \/ CallGraphStep

SpecQuery == InitQuery /\ [][NextQuery]_vars

(* The walks of the greatest depth alone. op_call_graph is one async        *)
(* function the runtime polls to its end: a walk that can take a turn of    *)
(* its loop takes it.                                                       *)
NextWalk ==
    \/ \E symbol \in {<<"foo">>, <<"n0">>, <<"hub">>},
          direction \in {"callers", "callees"} :
             CallGraphRequest("r1", symbol, direction, 6)
    \/ CallGraphBegin
    \/ CallGraphStep

SpecWalk == InitQuery /\ [][NextWalk]_vars /\ WF_vars(CallGraphStep)

----------------------------------------------------------------------------
(* main.rs 78-96 and 160: what the loop does with a line that does not     *)
(* reach an operation. read_line returns Ok(0) at the end of the input and *)
(* Err on a read failure, which a line that is not valid UTF-8 is          *)
(* (io::ErrorKind::InvalidData): both leave the loop. A line that is blank *)
(* after trim() is skipped. A line serde_json cannot turn into a request   *)
(* is answered with err_response(0, PARSE_ERROR) and a request with an     *)
(* unknown method with err_response(id, METHOD_NOT_FOUND); the loop goes   *)
(* on. reqs counts the lines read that are not blank.                      *)
StdinLine(kind) ==
    /\ UNCHANGED <<state_cell, workspaces, receiver>>
    /\ pc[Disp] = "idle"
    /\ kind \in {"invalid_utf8", "malformed", "unknown_method"} => reqs < MaxReqs
    /\ reqs' = IF kind \in {"eof", "blank"} THEN reqs ELSE reqs + 1
    /\ pc' = IF kind \in {"eof", "invalid_utf8"}
             THEN [pc EXCEPT ![Disp] = "stopped"] ELSE pc
    /\ resp' = CASE kind = "malformed" ->
                      [NoResp EXCEPT !.status = "parse_error", !.n = resp.n + 1,
                                     !.id = 0, !.code = PARSE_ERROR]
                 [] kind = "unknown_method" ->
                      [NoResp EXCEPT !.status = "unknown_method", !.n = resp.n + 1,
                                     !.id = reqs + 1, !.code = METHOD_NOT_FOUND]
                 [] OTHER -> resp
    /\ UNCHANGED <<repositories, saved, saved_workspaces, indexing_cancels, graph_cancels,
                   cancelled, chunks, edges, head, worktree, prepo, ix, gx,
                   disp, readers, queue, built>>

(* The loop over lines of every kind, with remove_repository and shutdown  *)
(* as the requests that reach an operation.                                *)
NextStdio ==
    \/ \E kind \in {"eof", "invalid_utf8", "blank", "malformed", "unknown_method"} :
          StdinLine(kind)
    \/ \E op \in {"remove", "shutdown"}, r \in Repos : Request(op, r, None)
    \/ RemoveRepository
    \/ Shutdown

SpecStdio == InitQuery /\ [][NextStdio]_vars

----------------------------------------------------------------------------
(* The webhook receiver: the stdio thread and the HTTP handlers.            *)

(* main.rs 90-97: refresh_webhook_map; try_write fails while a handler      *)
(* holds a read guard, and the map is then left as it is.                   *)
refresh_webhook_map(rc) ==
    IF rc.guards = {} THEN rc.store.webhooks ELSE rc.webhook_map

(* store.rs 22-50: load, from the files save_webhooks and save_deliveries   *)
(* wrote.                                                                   *)
load(disk) ==
    [webhooks |-> disk.webhooks,
     deliveries |-> [id \in DOMAIN disk.webhooks \cap DOMAIN disk.deliveries |->
                        disk.deliveries[id]]]

(* main.rs 154-158: emit_line of a response; 378-389: an event.publish      *)
(* request line.                                                            *)
ResponseLine(rc, code) ==
    [kind |-> "response", id |-> rc.calls, code |-> code, subject |-> 0,
     data |-> [json |-> FALSE, text |-> <<>>]]
EventLine(rc, event) ==
    [kind |-> "event.publish", id |-> rc.NEXT_ID, code |-> 0,
     subject |-> event.subject, data |-> event.data]

(* main.rs 174-226: handle_initialize. Every call starts a further server   *)
(* on the same map with a channel of its own and replaces pending_rx.       *)
Initialize(bound) ==
    /\ receiver.pc = "idle"
    /\ receiver.calls < MaxCalls
    /\ receiver.servers < MaxServers
    /\ LET rc == [receiver EXCEPT !.calls = @ + 1]
       IN  IF ~bound
           THEN receiver' = [rc EXCEPT !.out = Append(@, ResponseLine(rc, INIT_ERROR))]
           ELSE LET st == [rc EXCEPT !.store = load(rc.disk),
                                     !.servers = @ + 1,
                                     !.pending_rx = rc.servers + 1,
                                     !.chan = <<>>]
                IN  receiver' = [st EXCEPT !.webhook_map = refresh_webhook_map(st),
                                           !.out = Append(@, ResponseLine(rc, 0))]
    /\ UNCHANGED <<repositories, saved, saved_workspaces, indexing_cancels, graph_cancels,
                   cancelled, chunks, edges, head, worktree, pc, prepo, ix, gx,
                   disp, readers, queue, resp, reqs, built, state_cell, workspaces>>

(* main.rs 120-143, 248-253, 284-289: an execute or resources.* request is  *)
(* read; both handlers begin with drain_pending_events.                     *)
Call(method, id, data) ==
    /\ receiver.pc = "idle"
    /\ receiver.calls < MaxCalls
    /\ method = "create" => receiver.created < MaxWebhooks
    /\ receiver' = [receiver EXCEPT !.pc = "drain", !.calls = @ + 1,
                       !.call = [method |-> method, id |-> id, data |-> data,
                                 drained |-> 0]]
    /\ UNCHANGED <<repositories, saved, saved_workspaces, indexing_cancels, graph_cancels,
                   cancelled, chunks, edges, head, worktree, pc, prepo, ix, gx,
                   disp, readers, queue, resp, reqs, built, state_cell, workspaces>>

(* main.rs 351-363: try_recv until the channel is empty. *)
DrainTake ==
    /\ receiver.pc = "drain"
    /\ LET pending == IF receiver.pending_rx # 0 THEN receiver.chan ELSE <<>>
       IN  receiver' = [receiver EXCEPT !.pending = pending,
                           !.chan = IF receiver.pending_rx # 0 THEN <<>> ELSE @,
                           !.pc = IF pending = <<>> THEN "body" ELSE "emit"]
    /\ UNCHANGED <<repositories, saved, saved_workspaces, indexing_cancels, graph_cancels,
                   cancelled, chunks, edges, head, worktree, pc, prepo, ix, gx,
                   disp, readers, queue, resp, reqs, built, state_cell, workspaces>>

(* main.rs 369-386: one event.publish line is written and flushed. *)
DrainEmit ==
    /\ receiver.pc = "emit"
    /\ LET event == receiver.pending[receiver.call.drained + 1][1]
       IN  receiver' = [receiver EXCEPT !.out = Append(@, EventLine(receiver, event)),
                           !.NEXT_ID = @ + 1,
                           !.pc = "read"]
    /\ UNCHANGED <<repositories, saved, saved_workspaces, indexing_cancels, graph_cancels,
                   cancelled, chunks, edges, head, worktree, pc, prepo, ix, gx,
                   disp, readers, queue, resp, reqs, built, state_cell, workspaces>>

(* The loop of the drain without its read_line: the next event is written   *)
(* with the answer to the last one still unread.                            *)
DrainRead_no_line ==
    /\ receiver.pc = "read"
    /\ receiver' = [receiver EXCEPT
                       !.call.drained = @ + 1,
                       !.pc = IF receiver.call.drained + 1 = Len(receiver.pending)
                              THEN "persist" ELSE "emit"]
    /\ UNCHANGED <<repositories, saved, saved_workspaces, indexing_cancels, graph_cancels,
                   cancelled, chunks, edges, head, worktree, pc, prepo, ix, gx,
                   disp, readers, queue, resp, reqs, built, state_cell, workspaces>>

(* main.rs 388-390: read_line takes the next line of standard input.        *)
DrainRead ==
    /\ receiver.pc = "read"
    /\ receiver' = [receiver EXCEPT !.reads = @ + 1,
                       !.call.drained = @ + 1,
                       !.pc = IF receiver.call.drained + 1 = Len(receiver.pending)
                              THEN "persist" ELSE "emit"]
    /\ UNCHANGED <<repositories, saved, saved_workspaces, indexing_cancels, graph_cancels,
                   cancelled, chunks, edges, head, worktree, pc, prepo, ix, gx,
                   disp, readers, queue, resp, reqs, built, state_cell, workspaces>>

RECURSIVE RecordAll(_, _)
RecordAll(store, pending) ==
    IF pending = <<>> THEN store
    ELSE RecordAll(record_delivery(store, Head(pending)[2]), Tail(pending))

(* main.rs 393-403: the deliveries are recorded and saved, webhooks.json    *)
(* is rewritten and the map refreshed.                                      *)
DrainPersist ==
    /\ receiver.pc = "persist"
    /\ LET st == [receiver EXCEPT !.store = RecordAll(@, receiver.pending)]
           ids == {receiver.pending[k][2].webhook_id : k \in DOMAIN receiver.pending}
       IN  receiver' = [st EXCEPT
               !.disk = [webhooks |-> st.store.webhooks,
                         deliveries |-> [id \in DOMAIN @.deliveries \cup ids |->
                                            IF id \in ids THEN st.store.deliveries[id]
                                            ELSE @.deliveries[id]]],
               !.webhook_map = refresh_webhook_map(st),
               !.pending = <<>>,
               !.pc = "body"]
    /\ UNCHANGED <<repositories, saved, saved_workspaces, indexing_cancels, graph_cancels,
                   cancelled, chunks, edges, head, worktree, pc, prepo, ix, gx,
                   disp, readers, queue, resp, reqs, built, state_cell, workspaces>>

(* The end of a handler: the response line, after a body that left the      *)
(* AppState as st. save_webhooks()? returns before the refresh when the     *)
(* write fails.                                                             *)
Mutated(st, saved_ok) ==
    IF saved_ok
    THEN [st EXCEPT !.disk.webhooks = st.store.webhooks,
                    !.webhook_map = refresh_webhook_map(st),
                    !.out = Append(@, ResponseLine(st, 0)),
                    !.pc = "idle", !.call = NoCall]
    ELSE [st EXCEPT !.out = Append(@, ResponseLine(st, EXEC_ERROR)),
                    !.pc = "idle", !.call = NoCall]
Answered(st, code) ==
    [st EXCEPT !.out = Append(@, ResponseLine(st, code)), !.pc = "idle", !.call = NoCall]

(* main.rs 497-537: resource_create. *)
ResourceCreate(saved_ok) ==
    /\ receiver.pc = "body"
    /\ receiver.call.method = "create"
    /\ LET id == receiver.created + 1
           wh == Webhook(id, "webhook.received", receiver.call.data.verification_method,
                         receiver.call.data.verification_secret, "active")
       IN  receiver' = Mutated([receiver EXCEPT !.created = id,
                                   !.store.webhooks = Put(@, id, wh)], saved_ok)
    /\ UNCHANGED <<repositories, saved, saved_workspaces, indexing_cancels, graph_cancels,
                   cancelled, chunks, edges, head, worktree, pc, prepo, ix, gx,
                   disp, readers, queue, resp, reqs, built, state_cell, workspaces>>

(* main.rs 539-554: resource_update with store.rs 92-111: update. *)
ResourceUpdate(saved_ok) ==
    /\ receiver.pc = "body"
    /\ receiver.call.method = "update"
    /\ LET id == receiver.call.id
           data == receiver.call.data
       IN  IF id \notin DOMAIN receiver.store.webhooks
           THEN receiver' = Answered(receiver, EXEC_ERROR)
           ELSE receiver' = Mutated(
                   [receiver EXCEPT
                       !.store.webhooks[id].status =
                           IF data.status # "" THEN data.status ELSE @,
                       !.store.webhooks[id].verification_method =
                           IF data.verification_method # ""
                           THEN data.verification_method ELSE @], saved_ok)
    /\ UNCHANGED <<repositories, saved, saved_workspaces, indexing_cancels, graph_cancels,
                   cancelled, chunks, edges, head, worktree, pc, prepo, ix, gx,
                   disp, readers, queue, resp, reqs, built, state_cell, workspaces>>

(* main.rs 556-571: resource_delete with store.rs 113-115: delete. *)
ResourceDelete(saved_ok) ==
    /\ receiver.pc = "body"
    /\ receiver.call.method = "delete"
    /\ LET id == receiver.call.id
       IN  IF id \notin DOMAIN receiver.store.webhooks
           THEN receiver' = Answered(receiver, EXEC_ERROR)
           ELSE receiver' = Mutated([receiver EXCEPT !.store.webhooks = Del(@, id)],
                                    saved_ok)
    /\ UNCHANGED <<repositories, saved, saved_workspaces, indexing_cancels, graph_cancels,
                   cancelled, chunks, edges, head, worktree, pc, prepo, ix, gx,
                   disp, readers, queue, resp, reqs, built, state_cell, workspaces>>

(* main.rs 441-451, 480-490: the operations that only read (list), and      *)
(* 298-304: a resources.* call for another resource type.                   *)
ResourceList ==
    /\ receiver.pc = "body"
    /\ receiver.call.method \in {"list", "other_type"}
    /\ receiver' = Answered(receiver, IF receiver.call.method = "list" THEN 0
                                      ELSE INVALID_PARAMS)
    /\ UNCHANGED <<repositories, saved, saved_workspaces, indexing_cancels, graph_cancels,
                   cancelled, chunks, edges, head, worktree, pc, prepo, ix, gx,
                   disp, readers, queue, resp, reqs, built, state_cell, workspaces>>

(* http_server.rs 58-64: a request arrives at one of the servers and its    *)
(* handler takes the read guard of the map.                                 *)
HttpBegin(h, server, req) ==
    /\ receiver.http[h].pc = "idle"
    /\ receiver.posts < MaxPosts
    /\ server \in 1..receiver.servers
    /\ receiver' = [receiver EXCEPT !.posts = @ + 1,
                       !.guards = @ \cup {h},
                       !.http[h] = [HttpIdle EXCEPT !.pc = "lookup", !.server = server,
                                                    !.req = req]]
    /\ UNCHANGED <<repositories, saved, saved_workspaces, indexing_cancels, graph_cancels,
                   cancelled, chunks, edges, head, worktree, pc, prepo, ix, gx,
                   disp, readers, queue, resp, reqs, built, state_cell, workspaces>>

(* http_server.rs 65-69: the lookup, the clone and the drop of the guard.   *)
HttpLookup(h) ==
    /\ receiver.http[h].pc = "lookup"
    /\ LET id == receiver.http[h].req.id
           found == id \in DOMAIN receiver.webhook_map
       IN  receiver' = [receiver EXCEPT !.guards = @ \ {h},
               !.http[h] = IF found
                           THEN [@ EXCEPT !.pc = "verify", !.found = TRUE,
                                          !.wh = receiver.webhook_map[id]]
                           ELSE [@ EXCEPT !.pc = "idle", !.code = NOT_FOUND]]
    /\ UNCHANGED <<repositories, saved, saved_workspaces, indexing_cancels, graph_cancels,
                   cancelled, chunks, edges, head, worktree, pc, prepo, ix, gx,
                   disp, readers, queue, resp, reqs, built, state_cell, workspaces>>

(* serde_json::from_slice, else the lossy text (http_server.rs 124-125).    *)
body_value(body) ==
    IF body = <<"{\"hello\":\"world\"}">> THEN [json |-> TRUE, text |-> body]
    ELSE [json |-> FALSE, text |-> from_utf8_lossy(body)]

(* http_server.rs 71-153: the rest of handle_webhook. The send fails, and   *)
(* the failure is dropped, when the receiver of this server's channel is    *)
(* gone.                                                                    *)
HttpFinish(h) ==
    /\ receiver.http[h].pc = "verify"
    /\ LET hs == receiver.http[h]
           delivery == [id |-> receiver.uuids + 1, webhook_id |-> hs.req.id,
                        body |-> body_value(hs.req.body)]
           event == [event_type |-> hs.wh.event_type, subject |-> hs.req.id,
                     data |-> body_value(hs.req.body)]
           open == hs.server = receiver.pending_rx
       IN  IF hs.wh.status = "paused"
           THEN receiver' = [receiver EXCEPT !.http[h].pc = "idle",
                                             !.http[h].code = SERVICE_UNAVAILABLE]
           ELSE IF ~Verified(hs.wh, hs.req)
           THEN receiver' = [receiver EXCEPT !.http[h].pc = "idle",
                                             !.http[h].code = UNAUTHORIZED]
           ELSE receiver' = [receiver EXCEPT !.http[h].pc = "idle",
                                             !.http[h].code = OK,
                                             !.http[h].sent = open,
                                             !.uuids = @ + 1,
                                             !.chan = IF open
                                                      THEN Append(@, <<event, delivery>>)
                                                      ELSE @]
    /\ UNCHANGED <<repositories, saved, saved_workspaces, indexing_cancels, graph_cancels,
                   cancelled, chunks, edges, head, worktree, pc, prepo, ix, gx,
                   disp, readers, queue, resp, reqs, built, state_cell, workspaces>>

----------------------------------------------------------------------------
(* Specifications of the webhook receiver.                                  *)

(* The receiver from its construction on: initialize calls, execute and     *)
(* resources.* calls with their drains, and requests to every server        *)
(* started so far.                                                          *)
NextReceiver ==
    LET K == <<"k1">>
        Body == <<"{\"hello\":\"world\"}">>
        Creates == {[NoData EXCEPT !.verification_method = "none"],
                    [NoData EXCEPT !.verification_method = "github-hmac",
                                   !.verification_secret = K],
                    [NoData EXCEPT !.verification_method = "basic-auth"]}
        Updates == {[NoData EXCEPT !.status = "paused"]}
        Sigs == {<<>>, <<"sha256=">> \o hex_encode(hmac_sha256(K, Body))}
    IN  \/ \E bound \in BOOLEAN : Initialize(bound)
        \/ \E data \in Creates : Call("create", 0, data)
        \/ \E id \in 1..MaxWebhooks, data \in Updates : Call("update", id, data)
        \/ \E id \in 1..MaxWebhooks : Call("delete", id, NoData)
        \/ \E m \in {"list", "other_type"} : Call(m, 0, NoData)
        \/ DrainTake
        \/ DrainEmit
        \/ DrainRead
        \/ DrainPersist
        \/ \E saved_ok \in BOOLEAN : ResourceCreate(saved_ok)
        \/ \E saved_ok \in BOOLEAN : ResourceUpdate(saved_ok)
        \/ \E saved_ok \in BOOLEAN : ResourceDelete(saved_ok)
        \/ ResourceList
        \/ \E h \in (1..MaxHandlers), server \in 1..MaxServers, id \in 0..MaxWebhooks,
              sig \in Sigs :
              HttpBegin(h, server, HttpRequest(id, sig, <<>>, <<>>, Body))
        \/ \E h \in (1..MaxHandlers) : HttpLookup(h)
        \/ \E h \in (1..MaxHandlers) : HttpFinish(h)

SpecReceiver == Init /\ [][NextReceiver]_vars

(* The AppState once initialize and one create per webhook have returned    *)
(* with every write to disk done.                                           *)
Serving(webhooks) ==
    LET n == Cardinality(DOMAIN webhooks) + 1
    IN  [AppState_new EXCEPT
            !.store.webhooks = webhooks,
            !.disk.webhooks = webhooks,
            !.webhook_map = webhooks,
            !.servers = 1,
            !.pending_rx = 1,
            !.created = n - 1,
            !.calls = n,
            !.out = [k \in 1..n |-> ResponseLine([calls |-> k], 0)]]

(* Verification: one webhook per method and requests signed by senders      *)
(* that hold the right or a wrong key and sign the body they send or        *)
(* another one.                                                             *)
ListenerWebhooks ==
    LET ListenerKey == <<"k1">>
        wh(id, method, secret, status) == Webhook(id, "webhook.received", method, secret, status)
    IN  [id \in 1..7 |->
            CASE id = 1 -> wh(1, "none", <<>>, "active")
              [] id = 2 -> wh(2, "github-hmac", ListenerKey, "active")
              [] id = 3 -> wh(3, "standard-webhooks", base64_encode(ListenerKey), "active")
              [] id = 4 -> wh(4, "standard-webhooks", <<"whsec">>, "active")
              [] id = 5 -> wh(5, "custom-header", <<"X-Token", ":", "abc">>, "active")
              [] id = 6 -> wh(6, "basic-auth", <<"abc">>, "active")
              [] id = 7 -> wh(7, "none", <<>>, "paused")]
ListenerRequests ==
    LET ListenerKey == <<"k1">>
        ListenerBodies == {<<"{\"hello\":\"world\"}">>, <<"a=", "0xFF">>, <<"a=", "U+FFFD">>}
        Keys == {ListenerKey, <<"whsec">>, <<"k2">>}
        Id == <<"msg_1">>
        Ts == <<"1700000000">>
        github(key, signed) == <<"sha256=">> \o hex_encode(hmac_sha256(key, signed))
        v1(key, signed) ==
            <<"v1,">> \o base64_encode(hmac_sha256(key, Id \o <<".">> \o Ts \o <<".">> \o signed))
        plain == {HttpRequest(id, <<>>, <<>>, <<>>, b) : id \in {0, 1, 6, 7}, b \in ListenerBodies}
        hub == {HttpRequest(2, sig, <<>>, <<>>, b) :
                   sig \in {github(k, s) : k \in Keys, s \in ListenerBodies}
                           \cup {<<>>, hex_encode(hmac_sha256(ListenerKey, <<"a=", "0xFF">>))},
                   b \in ListenerBodies}
        std == {HttpRequest(id, sig, Id, ts, b) :
                   id \in {3, 4},
                   sig \in UNION {{v1(k, s),
                                   <<"v1,", "old", " ">> \o v1(k, s),
                                   <<"v1,", "old", "TAB">> \o v1(k, s),
                                   Tail(v1(k, s))} : k \in Keys, s \in ListenerBodies},
                   ts \in {Ts, <<"1700000001">>},
                   b \in ListenerBodies}
        custom == {HttpRequest(5, sig, <<>>, <<>>, <<"a=", "U+FFFD">>) :
                      sig \in {<<"abc">>, <<"abd">>, <<>>}}
    IN  plain \cup hub \cup std \cup custom

(* The index service at rest, for the specifications of the receiver.       *)
IndexServiceIdle ==
    /\ repositories = EmptyMap
    /\ saved = EmptyMap
    /\ indexing_cancels = EmptyMap
    /\ graph_cancels = EmptyMap
    /\ cancelled = [p \in Procs |-> FALSE]
    /\ chunks = {}
    /\ edges = {}
    /\ head = [r \in Repos |-> "c1"]
    /\ worktree = [r \in Repos |-> TreeAt("c1")]
    /\ pc = [p \in Procs |-> IF p = Disp THEN "idle" ELSE "free"]
    /\ prepo = [p \in Procs |-> None]
    /\ ix = [p \in IndexProcs |-> IxIdle]
    /\ gx = [g \in GraphTasks |-> GxIdle]
    /\ disp = DispIdle
    /\ readers = {}
    /\ queue = <<>>
    /\ resp = NoResp
    /\ reqs = 0
    /\ built = [r \in Repos |-> NoBuild]

InitListener ==
    /\ IndexServiceIdle
    /\ state_cell = DEFAULT_DATA_DIR
    /\ workspaces = EmptyMap
    /\ saved_workspaces = EmptyMap
    /\ receiver = Serving(ListenerWebhooks)

NextListener ==
    \/ \E req \in ListenerRequests : HttpBegin(1, 1, req)
    \/ \E h \in (1..MaxHandlers) : HttpLookup(h)
    \/ \E h \in (1..MaxHandlers) : HttpFinish(h)

SpecListener == InitListener /\ [][NextListener]_vars

(* The store on its own: deliveries recorded for a webhook that exists and, *)
(* once it is deleted, for one that does not.                               *)
RecordDelivery(id) ==
    /\ receiver.pc = "idle"
    /\ receiver.uuids < MaxRecorded
    /\ receiver' = [receiver EXCEPT
            !.uuids = @ + 1,
            !.store = record_delivery(@, [id |-> receiver.uuids + 1, webhook_id |-> id,
                                          body |-> body_value(<<"{\"hello\":\"world\"}">>)])]
    /\ UNCHANGED <<repositories, saved, saved_workspaces, indexing_cancels, graph_cancels,
                   cancelled, chunks, edges, head, worktree, pc, prepo, ix, gx,
                   disp, readers, queue, resp, reqs, built, state_cell, workspaces>>

(* store.rs 113-115: delete keeps the deliveries of the webhook. *)
DeleteWebhook(id) ==
    /\ receiver.pc = "idle"
    /\ id \in DOMAIN receiver.store.webhooks
    /\ receiver' = [receiver EXCEPT !.store.webhooks = Del(@, id)]
    /\ UNCHANGED <<repositories, saved, saved_workspaces, indexing_cancels, graph_cancels,
                   cancelled, chunks, edges, head, worktree, pc, prepo, ix, gx,
                   disp, readers, queue, resp, reqs, built, state_cell, workspaces>>

InitStore ==
    /\ IndexServiceIdle
    /\ state_cell = DEFAULT_DATA_DIR
    /\ workspaces = EmptyMap
    /\ saved_workspaces = EmptyMap
    /\ receiver = Serving([id \in {1} |->
                              Webhook(1, "webhook.received", "none", <<>>, "active")])

NextStore ==
    \/ RecordDelivery(1)
    \/ DeleteWebhook(1)

SpecStore == InitStore /\ [][NextStore]_vars

----------------------------------------------------------------------------
(* The index service before and after initialize.                           *)

(* main.rs 117-137: initialize. AppState::initialize (state.rs 73-99) runs  *)
(* on every call and fails when metadata.json cannot be read, when it names *)
(* an unknown embedding provider or when the store cannot be opened;        *)
(* STATE.set keeps the first value. The default directory holds the         *)
(* registry of an earlier run, the others hold none.                        *)
ServiceInitialize(data_dir, ok) ==
    /\ pc[Disp] = "idle"
    /\ reqs < MaxReqs
    /\ reqs' = reqs + 1
    /\ state_cell' = IF ok /\ state_cell = None THEN data_dir ELSE state_cell
    /\ LET metadata == IF data_dir = DEFAULT_DATA_DIR
                       THEN Put(EmptyMap, "r1",
                                [NewRepoMeta("r1", "/w/r1") EXCEPT !.indexing = FALSE])
                       ELSE EmptyMap
       IN  /\ repositories' = IF ok /\ state_cell = None THEN metadata ELSE repositories
           /\ saved' = IF ok /\ state_cell = None THEN metadata ELSE saved
    /\ workspaces' = IF ok /\ state_cell = None THEN EmptyMap ELSE workspaces
    /\ saved_workspaces' = IF ok /\ state_cell = None THEN EmptyMap
                           ELSE saved_workspaces
    /\ resp' = [NoResp EXCEPT !.op = "initialize",
                              !.status = IF ok THEN "ready" ELSE "error",
                              !.n = resp.n + 1,
                              !.id = reqs + 1,
                              !.code = IF ok THEN 0 ELSE EXEC_ERROR]
    /\ UNCHANGED <<indexing_cancels, graph_cancels, cancelled, chunks, edges, head,
                   worktree, pc, prepo, ix, gx, disp, readers, queue, built,
                   receiver>>

(* main.rs 164-174: handle_execute without the shared state. *)
ExecuteNotInitialized(op) ==
    /\ pc[Disp] = "idle"
    /\ reqs < MaxReqs
    /\ state_cell = None
    /\ reqs' = reqs + 1
    /\ resp' = [NoResp EXCEPT !.op = op, !.status = "error", !.n = resp.n + 1,
                              !.id = reqs + 1, !.code = EXEC_ERROR]
    /\ UNCHANGED <<repositories, saved, saved_workspaces, indexing_cancels, graph_cancels,
                   cancelled, chunks, edges, head, worktree, pc, prepo, ix, gx,
                   disp, readers, queue, built, state_cell, workspaces, receiver>>

InitService ==
    /\ IndexServiceIdle
    /\ state_cell = None
    /\ workspaces = EmptyMap
    /\ saved_workspaces = EmptyMap
    /\ receiver = AppState_new

NextService ==
    \/ \E data_dir \in {DEFAULT_DATA_DIR, "/tmp/ci", "."}, ok \in BOOLEAN :
          ServiceInitialize(data_dir, ok)
    \/ \E op \in {"status", "remove", "add"} : ExecuteNotInitialized(op)
    \/ Request("status", None, None)
    \/ \E r \in Repos : Request("remove", r, None)
    \/ Status
    \/ RemoveRepository

SpecService == InitService /\ [][NextService]_vars

----------------------------------------------------------------------------
(* Properties *)

(* C1: for every repository, at most one indexing body (index_repository   *)
(* or sync_repository) whose cancellation signal is not set is running at  *)
(* any time.                                                               *)
C1_AtMostOneIndexingTask ==
    \A r \in Repos :
        Cardinality({p \in IndexProcs : pc[p] = "ix_walk" /\ prepo[p] = r
                                        /\ ~cancelled[p]}) <= 1

(* C2: for every repository, at most one graph build whose cancellation    *)
(* signal is not set is running at any time.                               *)
C2_AtMostOneGraphTask ==
    \A r \in Repos :
        Cardinality({g \in GraphTasks : pc[g] = "g_refs" /\ prepo[g] = r
                                        /\ ~cancelled[g]}) <= 1

(* C3: an indexing task that has started, has not finished and has not     *)
(* been cancelled has an entry for its repository in indexing_cancels, and *)
(* a graph build in the same situation has one in graph_cancels.           *)
C3_TaskMapsAuthoritative ==
    /\ \A p \in IndexProcs :
          (pc[p] \in {"t_lock", "t_tblerr", "sync_lock", "ix_walk", "fin"}
           /\ ~cancelled[p]) => prepo[p] \in DOMAIN indexing_cancels
    /\ \A g \in GraphTasks :
          (pc[g] \in {"g_lock", "g_tblerr", "g_refs", "g_fin"}
           /\ ~cancelled[g]) => prepo[g] \in DOMAIN graph_cancels

(* C4: the step of add_repository that finds its repository in             *)
(* indexing_cancels answers already_indexing, ends the request, starts no  *)
(* task and leaves the registry, both task maps and the saved metadata as  *)
(* they were; the step of build_graph that finds its registered repository *)
(* in graph_cancels answers already_building, ends the request and starts  *)
(* no task.                                                                *)
C4_AlreadyRunningIsNoOp ==
    [][/\ (pc[Disp] = "add_check" /\ pc'[Disp] # "add_check"
           /\ prepo[Disp] \in DOMAIN indexing_cancels)
          => /\ resp'.op = "add" /\ resp'.repo = prepo[Disp]
             /\ resp'.status = "already_indexing"
             /\ pc'[Disp] = "idle"
             /\ \A t \in IndexTasks \cup GraphTasks : pc'[t] = pc[t]
             /\ UNCHANGED <<repositories, saved, saved_workspaces, indexing_cancels, graph_cancels>>
       /\ (pc[Disp] = "bg_check" /\ pc'[Disp] # "bg_check"
           /\ prepo[Disp] \in DOMAIN repositories
           /\ prepo[Disp] \in DOMAIN graph_cancels)
          => /\ resp'.op = "build_graph" /\ resp'.repo = prepo[Disp]
             /\ resp'.status = "already_building"
             /\ pc'[Disp] = "idle"
             /\ \A t \in IndexTasks \cup GraphTasks : pc'[t] = pc[t]
             /\ UNCHANGED <<repositories, saved, saved_workspaces, indexing_cancels, graph_cancels>>
      ]_vars

(* C4 happens: add_repository has just answered already_indexing while the *)
(* task of an earlier add_repository is still in its body.                 *)
C4_Witness ==
    /\ resp.op = "add" /\ resp.repo = "r1" /\ resp.status = "already_indexing"
    /\ \E i \in IndexTasks : pc[i] = "ix_walk" /\ prepo[i] = "r1"

(* C5: once remove_repository(R) has answered, every indexing task of R    *)
(* still in flight has its cancellation signal set; and when, with that    *)
(* answer the last one given, no background task is left, R is not in the  *)
(* registry and no chunk row has repo_id R.                                *)
C5_RemoveCancelsAndCleans ==
    \A r \in Repos :
        (pc[Disp] = "idle" /\ resp.op = "remove" /\ resp.repo = r)
        => /\ \A i \in IndexTasks :
                 (prepo[i] = r /\ pc[i] \in {"t_lock", "ix_walk", "fin"})
                 => cancelled[i]
           /\ (\A t \in IndexTasks \cup GraphTasks : pc[t] = "free")
              => (r \notin DOMAIN repositories
                  /\ count_rows_filtered(chunks, r) = 0)

(* C6: no repository in the registry, in memory or as saved, has the       *)
(* cancellation error as its last_sync_error.                              *)
C6_CancelNeverReported ==
    /\ \A r \in DOMAIN repositories :
          repositories[r].last_sync_error \notin CancelErrors
    /\ \A r \in DOMAIN saved : saved[r].last_sync_error \notin CancelErrors

C8_ChunkCountMatchesRows ==
    [][\A p \in IndexProcs :
          (pc[p] = "fin" /\ pc'[p] # "fin" /\ ix[p].res = "ok"
           /\ prepo[p] \in DOMAIN saved')
          => saved'[prepo[p]].chunk_count
             = count_rows_filtered(chunks', prepo[p])
      ]_vars

(* C9: when a graph build returns successfully, the edge_count it reports  *)
(* equals the number of edge rows of its repository.                       *)
C9_EdgeCountMatchesRows ==
    [][\A g \in GraphTasks :
          (pc[g] = "g_refs" /\ pc'[g] = "g_fin" /\ gx'[g].res = "ok")
          => gx'[g].total
             = Cardinality({t \in edges' : t.repo_id = prepo[g]})
      ]_vars

(* C10: a graph build that completes successfully on the commit of the     *)
(* previous successful build of the repository leaves the same edge rows   *)
(* as that build left.                                                     *)
C10_BuildGraphIdempotent ==
    [][\A g \in GraphTasks :
          (pc[g] = "g_refs" /\ pc'[g] = "g_fin" /\ gx'[g].res = "ok"
           /\ built[prepo[g]].commit = gx'[g].head_commit)
          => {t \in edges' : t.repo_id = prepo[g]} = built[prepo[g]].rows
      ]_vars

(* C11: the registry never holds two entries for one directory; the step   *)
(* in which add_repository answers leaves exactly one entry for the        *)
(* canonical path of its request; and no step other than                   *)
(* remove_repository, the completion of an indexing task included, drops   *)
(* an entry or changes its id or path.                                     *)
C11_AddIdempotent ==
    [][/\ Cardinality({k \in DOMAIN repositories' :
                         repositories'[k].path \in InputPaths}) <= 1
       /\ (pc[Disp] \in {"add_check", "add_ins"} /\ pc'[Disp] = "idle")
          => Cardinality({k \in DOMAIN repositories' :
                            repositories'[k].path = disp.path}) = 1
       /\ ~(pc[Disp] = "remove" /\ pc'[Disp] = "idle")
          => \A k \in DOMAIN repositories :
                /\ k \in DOMAIN repositories'
                /\ repositories'[k].path = repositories[k].path
                /\ repositories'[k].id = repositories[k].id
      ]_vars

(* C11 happens: add_repository has answered for a repository that an       *)
(* earlier add_repository registered and whose index has completed, and    *)
(* the registry holds one entry for its path.                              *)
C11_Witness ==
    /\ pc[Disp] = "idle"
    /\ resp.op = "add" /\ resp.status = "indexing"
    /\ "r1" \in DOMAIN repositories
    /\ repositories["r1"].last_indexed_commit # None
    /\ Cardinality({k \in DOMAIN repositories :
                      repositories[k].path = "/w/r1"}) = 1

(* C12: when a step of an index or sync run embeds and stores a batch,     *)
(* either every chunk of the batch is in the table with its vector and     *)
(* embed_pending is as before, or (the adapter failed) every chunk of the  *)
(* batch is in the table with a null vector and embed_pending is true; and *)
(* once true, embed_pending stays true up to the successful return of the  *)
(* run.                                                                    *)
C12_EmbedBatch ==
    [][\A p \in IndexProcs :
          LET b == ix[p]
              atEntry == b.pos <= Len(b.items)
              batch == IF atEntry
                       THEN b.buf \o chunk_file(b.items[b.pos], prepo[p])
                       ELSE b.buf
              embeds == /\ pc[p] = "ix_walk" /\ ix'[p] # b /\ ~cancelled[p]
                        /\ IF atEntry
                           THEN b.items[b.pos].kind = "file"
                                /\ Len(batch) >= CHUNK_BATCH
                           ELSE batch # <<>>
                        /\ ix'[p].res # ERR_STORE
          IN /\ embeds
                => \/ /\ \A k \in 1..Len(batch) :
                            [batch[k] EXCEPT !.vector = TRUE] \in chunks'
                      /\ ix'[p].pending = b.pending
                   \/ /\ \A k \in 1..Len(batch) :
                            [batch[k] EXCEPT !.vector = FALSE] \in chunks'
                      /\ ix'[p].pending = TRUE
             /\ (pc[p] = "ix_walk" /\ pc'[p] \in {"ix_walk", "fin"}
                 /\ ix'[p].res \in {None, "ok"} /\ b.pending)
                => ix'[p].pending
      ]_vars

(* C12 happens: a run whose earlier batch the adapter failed on has stored *)
(* its last batch with vectors, and its embed_pending is still true.       *)
C12_Witness ==
    \E p \in IndexProcs :
        /\ pc[p] = "ix_walk" /\ ix[p].pending
        /\ ix[p].pos > Len(ix[p].items) /\ ix[p].buf = <<>>
        /\ Len(ix[p].items) >= 2
        /\ LET f == ix[p].items[Len(ix[p].items)].path
               rows == {t \in chunks : t.repo_id = prepo[p] /\ t.file_path = f}
           IN Cardinality(rows) = CHUNK_BATCH /\ \A t \in rows : t.vector

(* C13: the sync step that finds the stored commit equal to HEAD leaves    *)
(* the chunks table as it is and returns, as chunk_count, the number of    *)
(* chunk rows of its repository.                                           *)
C13_NoOpSync ==
    [][(/\ pc[Disp] = "sync_lock" /\ pc'[Disp] \notin {"sync_lock", "idle"}
        /\ disp.todo[1].last = head[prepo[Disp]])
       => /\ chunks' = chunks
          /\ pc'[Disp] = "fin" /\ ix'[Disp].res = "ok"
          /\ ix'[Disp].count
             = Cardinality({t \in chunks' : t.repo_id = prepo[Disp]})
      ]_vars

(* C13 happens: a sync has found the stored commit equal to HEAD and       *)
(* returned the count of its repository's rows, which are not all the rows *)
(* of the table.                                                           *)
C13_Witness ==
    /\ pc[Disp] = "fin" /\ disp.op = "sync" /\ disp.todo # <<>>
    /\ disp.todo[1].last = head[prepo[Disp]]
    /\ ix[Disp].res = "ok" /\ ix[Disp].count > 0
    /\ ix[Disp].count < Cardinality(chunks)

C15_MissingCommitFullReindex ==
    [][(/\ pc[Disp] = "sync_lock" /\ pc'[Disp] \notin {"sync_lock", "idle"}
        /\ disp.todo[1].last \notin Odb \cup {None})
       => (pc'[Disp] = "ix_walk" /\ ix'[Disp].kind = "index")
      ]_vars


(* C16: every edge a graph build has emitted for a reference whose short   *)
(* name (the part after the last "::", or after the last "/" of an import  *)
(* path) is owned by exactly one file of the index used for resolution     *)
(* carries that file as its target_file.                                   *)
C16_UniqueOwnerResolves ==
    \A g \in GraphTasks : \A k \in 1..Len(gx[g].buf) :
        LET e == gx[g].buf[k]
            idx == gx[g].merged
            short == IF Contains(e.target_name, "::")
                     THEN RsplitFirst(e.target_name, "::")
                     ELSE IF e.edge_type = "imports" /\ Contains(e.target_name, "/")
                     THEN RsplitFirst(e.target_name, "/")
                     ELSE e.target_name
            owners == {f \in DOMAIN idx : \E j \in 1..Len(idx[f]) : idx[f][j].name = short}
        IN Cardinality(owners) = 1 => e.target_file \in owners

(* C17, as stated: every edge emitted for a reference whose short name is  *)
(* owned by two or more files of the index has an empty target_file.       *)
C17_AmbiguousIsEmpty ==
    \A g \in GraphTasks : \A k \in 1..Len(gx[g].buf) :
        LET e == gx[g].buf[k]
            idx == gx[g].merged
            short == IF Contains(e.target_name, "::")
                     THEN RsplitFirst(e.target_name, "::")
                     ELSE IF e.edge_type = "imports" /\ Contains(e.target_name, "/")
                     THEN RsplitFirst(e.target_name, "/")
                     ELSE e.target_name
            owners == {f \in DOMAIN idx : \E j \in 1..Len(idx[f]) : idx[f][j].name = short}
        IN Cardinality(owners) >= 2 => e.target_file = ""

(* C17, amended: for a short name owned by two or more files the edge's    *)
(* target_file is empty, unless the reference is unqualified, is not named *)
(* by an import of its file and its own file is one of the owners: then    *)
(* the same-file rule gives the edge its own file.                         *)
C17_AmbiguousIsEmptyOrSameFile ==
    \A g \in GraphTasks : \A k \in 1..Len(gx[g].buf) :
        LET e == gx[g].buf[k]
            idx == gx[g].merged
            qualified == Contains(e.target_name, "::")
                         \/ (e.edge_type = "imports" /\ Contains(e.target_name, "/"))
            short == IF Contains(e.target_name, "::")
                     THEN RsplitFirst(e.target_name, "::")
                     ELSE IF e.edge_type = "imports" /\ Contains(e.target_name, "/")
                     THEN RsplitFirst(e.target_name, "/")
                     ELSE e.target_name
            owners == {f \in DOMAIN idx : \E j \in 1..Len(idx[f]) : idx[f][j].name = short}
            file == CHOOSE f \in Range(gx[g].items) :
                        f.kind = "file" /\ f.path = e.source_file
            imported == \E j \in 1..Len(file.refs) :
                           /\ file.refs[j].edge_type = "imports"
                           /\ RsplitFirst(file.refs[j].target_name, "::") = e.target_name
            same == ~qualified /\ ~imported /\ e.source_file \in owners
        IN Cardinality(owners) >= 2 =>
              e.target_file = IF same THEN e.source_file ELSE ""

(* C17 witness: an edge was emitted with an empty target_file for a call   *)
(* of foo, which two files other than the caller's own file define.        *)
C17_Witness ==
    \E g \in GraphTasks : \E k \in 1..Len(gx[g].buf) :
        LET e == gx[g].buf[k]
            idx == gx[g].merged
            owners == {f \in DOMAIN idx :
                         \E j \in 1..Len(idx[f]) : idx[f][j].name = <<"foo">>}
        IN /\ e.target_name = <<"foo">>
           /\ owners = {"b.rs", "c.rs"}
           /\ e.target_file = ""

(* C18: the source_symbol of every emitted edge names a symbol of the      *)
(* edge's file that contains the reference line and whose span no other    *)
(* containing symbol undercuts, and it is empty exactly when no symbol of  *)
(* the file contains the line.                                             *)
C18_ContainingSymbol ==
    \A g \in GraphTasks : \A k \in 1..Len(gx[g].buf) :
        LET e == gx[g].buf[k]
            file == CHOOSE f \in Range(gx[g].items) :
                        f.kind = "file" /\ f.path = e.source_file
            syms == file.symbols
            holds == {j \in 1..Len(syms) : syms[j].start_line <= e.source_line
                                           /\ e.source_line <= syms[j].end_line}
            span(j) == syms[j].end_line - syms[j].start_line
        IN /\ (e.source_symbol = <<>>) <=> (holds = {})
           /\ holds # {} =>
                \E j \in holds : /\ syms[j].name = e.source_symbol
                                 /\ \A i \in holds : span(j) <= span(i)

(* C18 witness: a reference on line 15 of a file whose symbol outer spans  *)
(* lines 1-50 and is listed before inner (lines 10-20) got inner as its    *)
(* source_symbol.                                                          *)
C18_Witness ==
    \E g \in GraphTasks : \E k \in 1..Len(gx[g].buf) :
        LET e == gx[g].buf[k]
            file == CHOOSE f \in Range(gx[g].items) :
                        f.kind = "file" /\ f.path = e.source_file
        IN /\ e.source_line = 15
           /\ Len(file.symbols) = 2
           /\ file.symbols[1].name = <<"outer">>
           /\ e.source_symbol = <<"inner">>


(* C19: while a call_graph request with requested depth D is served (an    *)
(* absent depth counts as 2), every output edge has a depth from 1 to      *)
(* min(D, 5); when the walk is over, every symbol reached at a depth d     *)
(* below that bound has its 'calls' edges of the repository (those leaving *)
(* it for callees, those targeting it for callers), or CALL_GRAPH_LIMIT of *)
(* them when there are more, in the output with depth d + 1 and nothing    *)
(* else; and in the repository where foo calls bar and qux and bar calls   *)
(* baz, the callees of foo to depth 2 are (foo,bar,1), (foo,qux,1) and     *)
(* (bar,baz,2).                                                            *)
C19_CallGraph ==
    LET cg == disp.cg
        bound == IF cg.requested < 0 THEN 2
                 ELSE IF cg.requested < 5 THEN cg.requested ELSE 5
        callers == cg.direction = "callers"
        far(o) == IF callers THEN o.from ELSE o.to
        near(o) == IF callers THEN o.to ELSE o.from
        reached == ({cg.symbol} \cup {far(o) : o \in cg.out}) \ {<<>>}
        depthOf(s) == IF s = cg.symbol THEN 0
                      ELSE CHOOSE d \in 1..5 :
                              /\ \E o \in cg.out : far(o) = s /\ o.depth = d
                              /\ \A o \in cg.out : far(o) = s => o.depth >= d
        match(s) == {t \in edges :
                       /\ t.repo_id = prepo[Disp]
                       /\ t.edge_type = "calls"
                       /\ IF callers THEN t.target_name = s \/ t.target_qualified = s
                          ELSE t.source_symbol = s}
        of(s) == {o \in cg.out : near(o) = s}
        want(s) == IF Cardinality(match(s)) < CALL_GRAPH_LIMIT
                   THEN Cardinality(match(s)) ELSE CALL_GRAPH_LIMIT
    IN pc[Disp] = "cg_bfs" =>
         /\ \A o \in cg.out : 1 <= o.depth /\ o.depth <= bound
         /\ cg.queue = <<>> =>
              \A s \in reached : depthOf(s) < bound =>
                 /\ \A o \in of(s) :
                       /\ o.depth = depthOf(s) + 1
                       /\ \E t \in match(s) :
                             /\ o.row = t.id
                             /\ o.source_file = t.source_file
                             /\ o.source_line = t.source_line
                             /\ far(o) = IF callers THEN t.source_symbol
                                         ELSE t.target_name
                 /\ Cardinality(of(s)) = want(s)
         /\ (/\ cg.queue = <<>>
             /\ \E t \in edges : t.target_name = <<"qux">>
             /\ prepo[Disp] = "r1" /\ cg.symbol = <<"foo">>
             /\ ~callers /\ cg.requested = 2) =>
              {<<o.from, o.to, o.depth>> : o \in cg.out} =
                 {<<<<"foo">>, <<"bar">>, 1>>, <<<<"foo">>, <<"qux">>, 1>>,
                  <<<<"bar">>, <<"baz">>, 2>>}

(* C19 witness: the walk of the callees of hub to the requested depth 6 is *)
(* over: 100 of the 101 calls of foo by hub are in the output with depth   *)
(* 1 and the call of bar by foo with depth 2.                              *)
C19_Witness ==
    /\ pc[Disp] = "cg_bfs"
    /\ disp.cg.queue = <<>>
    /\ disp.cg.symbol = <<"hub">>
    /\ disp.cg.direction = "callees"
    /\ disp.cg.requested = 6
    /\ Cardinality({o \in disp.cg.out : o.depth = 1 /\ o.to = <<"foo">>}) = CALL_GRAPH_LIMIT
    /\ \E o \in disp.cg.out : o.depth = 2 /\ o.from = <<"foo">> /\ o.to = <<"bar">>


(* C20: whenever the stdio loop is between two lines or has ended, it has  *)
(* written one response for every non-blank line it has read, and the      *)
(* response written last answers the line read last; a line that is not a  *)
(* valid request is answered with id 0 and code -32700 and the loop goes   *)
(* on; once the response to shutdown is written the loop has ended, and an *)
(* ended loop reads and writes nothing more.                               *)
C20_OneForOne ==
    /\ [](pc[Disp] \in {"idle", "stopped"} =>
             /\ resp.n = reqs
             /\ resp.id \in {0, reqs})
    /\ [][(pc[Disp] = "idle" /\ reqs' = reqs + 1 /\ disp'.op = None) =>
             /\ pc'[Disp] = "idle"
             /\ resp'.n = resp.n + 1
             /\ resp'.id = 0 => resp'.code = PARSE_ERROR
             /\ resp'.code = PARSE_ERROR => resp'.id = 0]_vars
    /\ [][(resp'.op = "shutdown" /\ resp'.n = resp.n + 1) =>
             pc'[Disp] = "stopped"]_vars
    /\ [][pc[Disp] = "stopped" => (reqs' = reqs /\ resp' = resp)]_vars


(* C22: the step that answers shutdown sets the cancellation signal of     *)
(* every task that has an entry in indexing_cancels or graph_cancels and   *)
(* empties both maps, every task in flight at that step has its signal set *)
(* by it, and a signal that is set stays set for as long as its task runs. *)
C22_ShutdownCancelsAll ==
    /\ [][(pc[Disp] = "shutdown" /\ pc'[Disp] = "stopped") =>
             /\ indexing_cancels' = EmptyMap
             /\ graph_cancels' = EmptyMap
             /\ \A p \in Owners(indexing_cancels, Repos) \cup Owners(graph_cancels, Repos) :
                   cancelled'[p]
             /\ \A p \in IndexTasks \cup GraphTasks :
                   pc[p] # "free" => cancelled'[p]]_vars
    /\ [][\A p \in IndexTasks \cup GraphTasks :
             (cancelled[p] /\ pc[p] # "free") => (cancelled'[p] \/ pc'[p] = "free")]_vars


(* C27: a status request that finds only readers holding the lock (bodies  *)
(* of index or graph tasks at work) can take its read lock at once: it     *)
(* does not have to wait for a body to finish.                             *)
C27_StatusNotBehindBody ==
    (/\ pc[Disp] = "status"
     /\ readers # {}
     /\ \A p \in readers : pc[p] \in {"ix_walk", "g_refs"}) => CanRead(Disp)


(* C29: the step with which a graph build starts its work leaves no edge   *)
(* row of its repository in the table, and the build upserts only after    *)
(* that step; the step with which a build stops on a cancellation or a     *)
(* failure removes no row, and the completion of such a build leaves the   *)
(* repository's graph_edge_count and last_graph_commit as they were.       *)
C29_DeleteFirstNoRollback ==
    [][\A g \in GraphTasks :
          /\ (pc[g] = "g_lock" /\ pc'[g] \in {"g_refs", "g_fin"}) =>
                {t \in edges' : t.repo_id = prepo[g]} = {}
          /\ ((gx'[g] # gx[g] \/ pc'[g] # pc[g]) /\ ~(edges' \subseteq edges)) =>
                pc[g] = "g_refs"
          /\ (pc[g] = "g_refs" /\ pc'[g] = "g_fin" /\ gx'[g].res # "ok") =>
                edges \subseteq edges'
          /\ (pc[g] = "g_fin" /\ pc'[g] = "free" /\ gx[g].res # "ok"
              /\ prepo[g] \in DOMAIN repositories) =>
                /\ prepo[g] \in DOMAIN repositories'
                /\ repositories'[prepo[g]].graph_edge_count =
                      repositories[prepo[g]].graph_edge_count
                /\ repositories'[prepo[g]].last_graph_commit =
                      repositories[prepo[g]].last_graph_commit]_vars

(* C29 witness: a build that replaced the edges of an earlier successful   *)
(* build has failed after its first batch: its rows are in the table and   *)
(* the registry still shows the earlier build's count and commit.          *)
C29_Witness ==
    \E g \in GraphTasks :
        /\ pc[g] = "g_fin"
        /\ gx[g].res = ERR_STORE
        /\ Cardinality({t \in edges : t.repo_id = prepo[g]}) >= EDGE_BATCH - 1
        /\ prepo[g] \in DOMAIN repositories
        /\ repositories[prepo[g]].last_graph_commit # None
        /\ repositories[prepo[g]].graph_edge_count > 0


(* C30: in the merged symbol index a graph build resolves names with, the  *)
(* entry of every file with directly extracted symbols holds exactly those *)
(* symbols, and every other entry holds the symbols of the file's rows in  *)
(* the chunks table.                                                       *)
C30_DirectPrecedence ==
    \A g \in GraphTasks :
        pc[g] = "g_refs" =>
            LET direct == gx[g].direct
                merged == gx[g].merged
                rows(f) == {SymbolInfo(t) : t \in {u \in chunks :
                               u.repo_id = prepo[g] /\ u.file_path = f}}
            IN /\ \A f \in DOMAIN direct :
                     f \in DOMAIN merged /\ Range(merged[f]) = Range(direct[f])
               /\ \A f \in DOMAIN merged \ DOMAIN direct :
                     Range(merged[f]) = rows(f)

(* C23: every request to /hooks/{id} is answered 404 when the id is not in  *)
(* the listener's map, 503 when the webhook is paused, 401 when the         *)
(* verification fails or the method is not a recognised one, and in these   *)
(* cases the channel is left as it is; the requests that pass verification, *)
(* and only they, are answered 200 and put exactly one (event, delivery)    *)
(* pair on the channel.                                                     *)
C23_StatusAndEnqueue ==
    [][\A h \in (1..MaxHandlers) :
          (receiver.http[h].pc # "idle" /\ receiver'.http[h].pc = "idle") =>
             LET hs == receiver.http[h]
                 code == receiver'.http[h].code
                 same == receiver'.chan = receiver.chan
                 one == /\ Len(receiver'.chan) = Len(receiver.chan) + 1
                        /\ SubSeq(receiver'.chan, 1, Len(receiver.chan)) = receiver.chan
                        /\ receiver'.chan[Len(receiver'.chan)][1].subject = hs.req.id
                        /\ receiver'.chan[Len(receiver'.chan)][2].webhook_id = hs.req.id
             IN  IF hs.pc = "lookup"
                 THEN hs.req.id \notin DOMAIN receiver.webhook_map /\ code = NOT_FOUND /\ same
                 ELSE IF hs.wh.status = "paused"
                 THEN code = SERVICE_UNAVAILABLE /\ same
                 ELSE IF ~Verified(hs.wh, hs.req)
                 THEN code = UNAUTHORIZED /\ same
                 ELSE code = OK /\ one]_vars

(* C24: a request to a standard-webhooks webhook is accepted if and only if *)
(* one of the tokens of its webhook-signature header is 'v1,' followed by   *)
(* the base64 of the HMAC-SHA256 of '{webhook-id}.{webhook-timestamp}.'     *)
(* and the body, under the decoded secret when the secret decodes and the   *)
(* raw secret otherwise; a request to a github-hmac webhook is accepted if  *)
(* and only if its X-Hub-Signature-256 header is 'sha256=' followed by the  *)
(* hex of the HMAC-SHA256 of the raw body under the secret.                 *)
C24_VerificationIff ==
    \A h \in (1..MaxHandlers) :
        LET hs == receiver.http[h]
            secret == hs.wh.verification_secret
            key == IF secret # <<>> /\ Head(secret) = "b64" THEN Tail(secret) ELSE secret
            payload == hs.req.msg_id \o <<".">> \o hs.req.timestamp \o <<".">> \o hs.req.body
            token == <<"v1,">> \o base64_encode(hmac_sha256(key, payload))
            tokens == split_whitespace(hs.req.signature, <<>>)
        IN  (hs.pc = "idle" /\ hs.code \in {OK, UNAUTHORIZED}) =>
               /\ hs.wh.verification_method = "standard-webhooks" =>
                     (hs.code = OK <=> \E k \in DOMAIN tokens : tokens[k] = token)
               /\ hs.wh.verification_method = "github-hmac" =>
                     (hs.code = OK <=>
                         hs.req.signature = <<"sha256=">> \o hex_encode(hmac_sha256(secret, hs.req.body)))

(* C25: the drain is one-for-one. The drain at the start of an execute or   *)
(* resources.* call takes every pair that is on the channel; the event      *)
(* lines written since the last response are the events taken, in order     *)
(* and with their data, as far as the drain has got; every event line is    *)
(* followed by the reading of exactly one line of standard input before     *)
(* the next line is written; and a response is written only when every      *)
(* event taken has been written and answered.                               *)
C25_DrainOneForOne ==
    /\ [](LET rc == receiver
              lastResponse == IF \E k \in DOMAIN rc.out : rc.out[k].kind = "response"
                              THEN CHOOSE k \in DOMAIN rc.out :
                                      /\ rc.out[k].kind = "response"
                                      /\ \A j \in DOMAIN rc.out :
                                            rc.out[j].kind = "response" => j <= k
                              ELSE 0
              emitted == SubSeq(rc.out, lastResponse + 1, Len(rc.out))
              events == Cardinality({k \in DOMAIN rc.out : rc.out[k].kind = "event.publish"})
          IN  /\ rc.reads = events - (IF rc.pc = "read" THEN 1 ELSE 0)
              /\ rc.pc \in {"emit", "read", "persist"} =>
                    /\ Len(emitted) = rc.call.drained + (IF rc.pc = "read" THEN 1 ELSE 0)
                    /\ Len(emitted) <= Len(rc.pending)
                    /\ \A k \in DOMAIN emitted :
                          /\ emitted[k].kind = "event.publish"
                          /\ emitted[k].data = rc.pending[k][1].data
                          /\ emitted[k].subject = rc.pending[k][1].subject
              /\ rc.pc = "persist" => Len(emitted) = Len(rc.pending)
              /\ rc.pc \in {"idle", "drain"} => emitted = <<>>)
    /\ [][/\ (receiver.pc = "drain" /\ receiver'.pc # "drain") =>
                /\ receiver'.pending = receiver.chan
                /\ receiver'.chan = <<>>
                /\ receiver'.pc = (IF receiver.chan = <<>> THEN "body" ELSE "emit")
          /\ receiver'.out # receiver.out =>
                /\ Len(receiver'.out) = Len(receiver.out) + 1
                /\ SubSeq(receiver'.out, 1, Len(receiver.out)) = receiver.out
                /\ receiver.pc \in {"idle", "body", "emit"}
                /\ receiver'.out[Len(receiver'.out)].kind =
                      (IF receiver.pc = "emit" THEN "event.publish" ELSE "response")
          /\ (receiver.pc = "body" /\ receiver'.pc # "body") =>
                /\ receiver'.pc = "idle"
                /\ receiver'.out # receiver.out
          /\ (receiver.pc = "persist" /\ receiver'.pc # "persist") =>
                receiver'.pc = "body"]_vars

(* Two requests to a webhook without verification were answered 200, and    *)
(* the next call wrote their two events, read two lines and then wrote its  *)
(* response.                                                                *)
C25_Witness ==
    /\ receiver.pc = "idle"
    /\ receiver.reads = 2
    /\ Len(receiver.out) >= 3
    /\ LET n == Len(receiver.out)
       IN  /\ receiver.out[n].kind = "response"
           /\ receiver.out[n - 1].kind = "event.publish"
           /\ receiver.out[n - 2].kind = "event.publish"
           /\ receiver.out[n - 2].id = FIRST_EVENT_ID
           /\ receiver.out[n - 1].id = FIRST_EVENT_ID + 1
           /\ receiver.out[n - 1].data = [json |-> TRUE, text |-> <<"{\"hello\":\"world\"}">>]

(* C26: from an empty store on, the buffer of a webhook holds at most 50    *)
(* deliveries, and they are the deliveries recorded last, in the order of   *)
(* recording, the oldest having been evicted first; recording a delivery    *)
(* of a webhook that exists adds exactly one to its trigger_count.          *)
C26_RingOfFifty ==
    /\ [](\A id \in DOMAIN receiver.store.deliveries :
            LET buffer == receiver.store.deliveries[id]
                n == receiver.uuids
            IN  /\ Len(buffer) <= 50
                /\ Len(buffer) = (IF n < 50 THEN n ELSE 50)
                /\ \A k \in DOMAIN buffer : buffer[k].id = n - Len(buffer) + k)
    /\ [][receiver'.uuids = receiver.uuids + 1 =>
             \A id \in DOMAIN receiver.store.webhooks :
                /\ id \in DOMAIN receiver'.store.webhooks
                /\ receiver'.store.webhooks[id].trigger_count =
                      receiver.store.webhooks[id].trigger_count + 1]_vars

(* Fifty-three deliveries were recorded for a webhook that exists: the      *)
(* buffer holds the last fifty, the first three are gone.                   *)
C26_Witness ==
    /\ receiver.uuids = 53
    /\ 1 \in DOMAIN receiver.store.webhooks
    /\ receiver.store.webhooks[1].trigger_count = 53
    /\ Len(receiver.store.deliveries[1]) = 50
    /\ receiver.store.deliveries[1][1].id = 4
    /\ receiver.store.deliveries[1][50].id = 53

(* C28: when a create, update or delete that succeeded, or a drain that     *)
(* recorded deliveries, returns, the map of the HTTP listener holds exactly *)
(* the webhooks of the store with their current fields, whatever the HTTP   *)
(* handlers are doing with the map at that moment.                          *)
C28_MapIsStoreAfterMutation ==
    [][(\/ /\ receiver.pc = "body"
           /\ receiver.call.method \in {"create", "update", "delete"}
           /\ receiver'.pc = "idle"
           /\ receiver'.out[Len(receiver'.out)].code = 0
        \/ /\ receiver.pc = "persist"
           /\ receiver'.pc = "body")
          => receiver'.webhook_map = receiver'.store.webhooks]_vars

(* C21: the shared state of the index service is installed exactly once, by *)
(* the first initialize that succeeds; every later initialize call,         *)
(* whatever its data_dir, is answered with success and leaves the installed *)
(* state as it is; an execute request before that is answered with an error *)
(* and changes nothing.                                                     *)
C21_ReadyExactlyOnce ==
    [][/\ state_cell # None => state_cell' = state_cell
       /\ (state_cell = None /\ state_cell' # None) =>
             resp'.op = "initialize" /\ resp'.code = 0
       /\ (state_cell # None /\ resp'.n = resp.n + 1 /\ resp'.op = "initialize") =>
             /\ resp'.code = 0
             /\ UNCHANGED <<state_cell, workspaces, repositories, saved, saved_workspaces, indexing_cancels,
                            graph_cancels, chunks, edges>>
       /\ (state_cell = None /\ resp'.n = resp.n + 1 /\ resp'.op # "initialize") =>
             /\ resp'.code = EXEC_ERROR
             /\ UNCHANGED <<state_cell, workspaces, repositories, saved, saved_workspaces, indexing_cancels,
                            graph_cancels, chunks, edges>>]_vars

(* C31: for every import reference of a file the import map has an entry    *)
(* whose key is the trailing short name of the target, the part after the   *)
(* last '::' when the target holds '::' and the part after the last '/'     *)
(* otherwise, and whose value is the full target.                           *)
C31_ImportMapShortNames ==
    \A g \in GraphTasks :
        pc[g] = "g_refs" =>
            \A k \in DOMAIN worktree[prepo[g]] :
                LET f == worktree[prepo[g]][k]
                    import_map == extract_import_map(f.refs)
                IN  \A j \in DOMAIN f.refs :
                        f.refs[j].edge_type = "imports" =>
                            LET target == f.refs[j].target_name
                                short == IF Contains(target, "::")
                                         THEN RsplitFirst(target, "::")
                                         ELSE RsplitFirst(target, "/")
                            IN  /\ short \in DOMAIN import_map
                                /\ import_map[short] = target


----------------------------------------------------------------------------
(* chunk_file alone (indexer.rs 124-197), on every file of up to MaxLines   *)
(* lines: of an unknown language, of a supported language out of which      *)
(* extract_symbols takes nothing (or fails), one symbol or two symbols.     *)

MaxLines == 520

ChunkInputs ==
    {File("u.txt", "unknown", n, <<>>, <<>>) : n \in 0..MaxLines}
    \cup {File("a.rs", "rust", n, <<>>, <<>>) : n \in 0..MaxLines}
    \cup {File("a.rs", "rust", n, <<Sym(<<"foo">>, "function", 1, n)>>, <<>>) :
            n \in 1..MaxLines}
    \cup {File("a.rs", "rust", n, <<Sym(<<"S">>, "struct", 1, 1),
                                    Sym(<<"S">>, "impl", 2, n)>>, <<>>) :
            n \in 2..MaxLines}

(* indexer.rs 96-97: the walk hands one file to chunk_file. *)
ChunkFile(p) ==
    /\ ix[p].pos = 1
    /\ ix[p].buf = <<>>
    /\ ix' = [ix EXCEPT ![p].pos = 2,
                        ![p].buf = chunk_file(ix[p].items[1], "r1")]
    /\ UNCHANGED <<repositories, saved, saved_workspaces, indexing_cancels, graph_cancels, cancelled,
                   chunks, edges, head, worktree, pc, prepo, gx, disp, readers,
                   queue, resp, reqs, built, state_cell, workspaces, receiver>>

InitChunk ==
    /\ repositories = EmptyMap
    /\ saved = EmptyMap
    /\ indexing_cancels = EmptyMap
    /\ graph_cancels = EmptyMap
    /\ cancelled = [p \in Procs |-> FALSE]
    /\ chunks = {}
    /\ edges = {}
    /\ head = [r \in Repos |-> "c1"]
    /\ \E f \in ChunkInputs :
         /\ worktree = [r \in Repos |-> <<f>>]
         /\ ix = [p \in IndexProcs |->
                    IF p = Disp THEN [IxIdle EXCEPT !.pos = 1, !.items = <<f>>]
                    ELSE IxIdle]
    /\ pc = [p \in Procs |-> IF p = Disp THEN "idle" ELSE "free"]
    /\ prepo = [p \in Procs |-> None]
    /\ gx = [g \in GraphTasks |-> GxIdle]
    /\ disp = DispIdle
    /\ readers = {}
    /\ queue = <<>>
    /\ resp = NoResp
    /\ reqs = 0
    /\ built = [r \in Repos |-> NoBuild]
    /\ state_cell = DEFAULT_DATA_DIR
    /\ workspaces = EmptyMap
    /\ saved_workspaces = EmptyMap
    /\ receiver = AppState_new

NextChunk == ChunkFile(Disp)

SpecChunk == InitChunk /\ [][NextChunk]_vars

(* The file chunk_file was handed and the records it returned. *)
Chunked == ix[Disp].pos = 2
ChunkedFile == ix[Disp].items[1]
Records == ix[Disp].buf

(* C32: chunk_file picks exactly one strategy per file: a file of fewer     *)
(* than 100 lines yields a single file_chunk over the whole file (99 lines: *)
(* [1, 99]); a file of 100 lines or more in a supported language with at    *)
(* least one extracted symbol yields exactly one chunk per symbol, with the *)
(* symbol's range, and no window chunk; every other file of 100 lines or    *)
(* more yields only file_chunks.                                            *)
C32_OneStrategyPerFile ==
    Chunked =>
        LET f == ChunkedFile
            out == Records
        IN  /\ f.lines < 100 =>
                 /\ Len(out) = 1
                 /\ out[1].symbol_type = "file_chunk"
                 /\ <<out[1].start_line, out[1].end_line>> = <<1, f.lines>>
            /\ (f.lines >= 100 /\ f.lang # "unknown" /\ Len(f.symbols) >= 1) =>
                 /\ Len(out) = Len(f.symbols)
                 /\ \A k \in 1..Len(out) :
                      /\ out[k].symbol_name = f.symbols[k].name
                      /\ out[k].symbol_type = f.symbols[k].symbol_type
                      /\ out[k].start_line = f.symbols[k].start_line
                      /\ out[k].end_line = f.symbols[k].end_line
                      /\ out[k].symbol_type # "file_chunk"
            /\ (f.lines >= 100 /\ (f.lang = "unknown" \/ Len(f.symbols) = 0)) =>
                 /\ Len(out) >= 1
                 /\ \A k \in 1..Len(out) :
                      /\ out[k].symbol_type = "file_chunk"
                      /\ out[k].symbol_name = <<>>

(* C32 happens: a file of 100 lines or more with two symbols was chunked    *)
(* into its two symbols.                                                    *)
C32_Witness ==
    /\ Chunked
    /\ ChunkedFile.lines >= 100
    /\ Len(ChunkedFile.symbols) = 2
    /\ Len(Records) = 2

(* C33: for every file of n >= 100 lines that falls back to the sliding     *)
(* window the windows are [1 + 150k, min(200 + 150k, n)] for k = 0, 1, ...  *)
(* up to and including the first window whose end is n: consecutive windows *)
(* overlap by 50 lines, every line from 1 to n is covered, the last window  *)
(* ends at n and no window starts after the previous one reached n; a file  *)
(* of 450 lines yields exactly [1,200], [151,350], [301,450].               *)
C33_SlidingWindows ==
    (/\ Chunked
     /\ ChunkedFile.lines >= 100
     /\ (ChunkedFile.lang = "unknown" \/ ChunkedFile.symbols = <<>>)) =>
        LET n == ChunkedFile.lines
            out == Records
            range(k) == <<out[k].start_line, out[k].end_line>>
            last == CHOOSE k \in 0..n :
                       /\ 200 + 150 * k >= n
                       /\ \A j \in 0..(k - 1) : 200 + 150 * j < n
        IN  /\ Len(out) = last + 1
            /\ \A k \in 0..last :
                 range(k + 1) = <<1 + 150 * k,
                                  IF 200 + 150 * k < n THEN 200 + 150 * k ELSE n>>
            /\ \A k \in 1..(Len(out) - 1) :
                 /\ out[k].end_line - out[k + 1].start_line + 1 = 50
                 /\ out[k].end_line < n
            /\ \A line \in 1..n :
                 \E k \in 1..Len(out) :
                    out[k].start_line <= line /\ line <= out[k].end_line
            /\ out[Len(out)].end_line = n
            /\ n = 450 => <<range(1), range(2), range(3)>>
                             = <<<<1, 200>>, <<151, 350>>, <<301, 450>>>>

(* C33 happens: a file of 501 lines without symbols was cut into four       *)
(* windows, the last of them [451, 501].                                    *)
C33_Witness ==
    /\ Chunked
    /\ ChunkedFile.lines = 501
    /\ ChunkedFile.symbols = <<>>
    /\ Len(Records) = 4
    /\ Records[4].start_line = 451
    /\ Records[4].end_line = 501

(* C38: every chunk record chunk_file produces, for every file content and  *)
(* for an empty file too, has a 1-based inclusive range with                *)
(* 1 <= start_line <= end_line <= the line count of the file.               *)
C38_RangeWithinFile ==
    Chunked =>
        \A k \in 1..Len(Records) :
            /\ 1 <= Records[k].start_line
            /\ Records[k].start_line <= Records[k].end_line
            /\ Records[k].end_line <= ChunkedFile.lines

(* C34: the call-graph walk ends on every finite edge table, tables with    *)
(* call cycles and self-calls included: the visited set makes every symbol  *)
(* be enqueued, and so expanded, at most once (a symbol is enqueued only    *)
(* when it is not yet in the visited set, which never shrinks and holds     *)
(* every symbol of the queue; a turn of the loop takes the head of the      *)
(* queue), and each expansion reads at most 100 edges.                      *)
C34_BfsTerminates ==
    /\ [](pc[Disp] = "cg_bfs" =>
            LET q == disp.cg.queue
            IN  /\ \A i, j \in 1..Len(q) : q[i].symbol = q[j].symbol => i = j
                /\ \A i \in 1..Len(q) : q[i].symbol \in disp.cg.visited)
    /\ [][(pc[Disp] = "cg_bfs" /\ pc'[Disp] = "cg_bfs") =>
            LET q == disp.cg.queue
                q2 == disp'.cg.queue
                added == Len(q2) - (Len(q) - 1)
            IN  /\ q # <<>>
                /\ added >= 0
                /\ \A i \in 1..(Len(q) - 1) : q2[i] = q[i + 1]
                /\ \A i \in Len(q)..Len(q2) : q2[i].symbol \notin disp.cg.visited
                /\ disp.cg.visited \subseteq disp'.cg.visited
                /\ disp.cg.out \subseteq disp'.cg.out
                /\ Cardinality(disp'.cg.out \ disp.cg.out) <= 100
      ]_vars
    /\ (pc[Disp] = "cg_bfs") ~> (pc[Disp] = "idle")

(* C34 happens: in the ring of seven functions a walk from n0, which calls  *)
(* itself, has met n0 again, has not enqueued it a second time and is over. *)
C34_Witness ==
    /\ pc[Disp] = "cg_bfs"
    /\ disp.cg.symbol = <<"n0">>
    /\ disp.cg.direction = "callees"
    /\ disp.cg.queue = <<>>
    /\ \E o \in disp.cg.out : o.from = <<"n0">> /\ o.to = <<"n0">>
    /\ Cardinality(disp.cg.out) = 6

(* C35: once remove_repository(R) has answered and, with that answer the    *)
(* last one given, every background task has finished, no edge row has      *)
(* repo_id R and neither indexing_cancels nor graph_cancels holds an entry  *)
(* for R, however the removal was interleaved with the indexing task of R   *)
(* and with the graph build chained after it.                               *)
C35_RemoveLeavesNothing ==
    \A r \in Repos :
        (/\ pc[Disp] = "idle" /\ resp.op = "remove" /\ resp.repo = r
         /\ resp.status = "removed"
         /\ \A t \in IndexTasks \cup GraphTasks : pc[t] = "free")
        => /\ \A t \in edges : t.repo_id # r
           /\ r \notin DOMAIN indexing_cancels
           /\ r \notin DOMAIN graph_cancels

(* C36: under fair scheduling every indexing, sync and graph-building task  *)
(* that is started eventually finishes, on every path (success, embedding   *)
(* or store failure, failure to open or create a table, cancellation), and  *)
(* leaves no trace of being in flight: the entry of its repository is       *)
(* eventually removed from the in-flight map, the persisted indexing or     *)
(* graph_building flag is eventually false, and no task waits forever for   *)
(* the state lock.                                                          *)
C36_TasksFinish ==
    /\ \A t \in IndexTasks \cup GraphTasks : (pc[t] # "free") ~> (pc[t] = "free")
    /\ \A r \in Repos :
          /\ (r \in DOMAIN indexing_cancels) ~> (r \notin DOMAIN indexing_cancels)
          /\ (r \in DOMAIN graph_cancels) ~> (r \notin DOMAIN graph_cancels)
          /\ (r \in DOMAIN saved /\ saved[r].indexing)
                ~> ~(r \in DOMAIN saved /\ saved[r].indexing)
          /\ (r \in DOMAIN saved /\ saved[r].graph_building)
                ~> ~(r \in DOMAIN saved /\ saved[r].graph_building)
    /\ \A t \in IndexTasks \cup GraphTasks :
          (t \in Range(queue)) ~> (t \notin Range(queue))

(* C37: for every repository, whenever a successful index or sync (a no-op  *)
(* sync and an incremental sync that touches only some files included) has  *)
(* completed and the persisted embed_pending is false, no chunk row of that *)
(* repository has a null vector.                                            *)
C37_NoNullVectorUnlessPending ==
    [][\A p \in IndexProcs :
          (/\ pc[p] = "fin" /\ pc'[p] # "fin"
           /\ ix[p].res = "ok"
           /\ prepo[p] \in DOMAIN saved'
           /\ ~saved'[prepo[p]].embed_pending)
          => \A row \in chunks' : row.repo_id = prepo[p] => row.vector
      ]_vars

(* C39: after any sequence of add_repository, remove_repository and         *)
(* create_workspace every repository identifier listed in a workspace is    *)
(* an identifier of the registry; and a create_workspace that names an      *)
(* unknown repository answers with an error and leaves the workspaces and   *)
(* the persisted metadata as they were.                                     *)
C39_WorkspacesNameRepositories ==
    /\ [](\A name \in DOMAIN workspaces :
             \A k \in DOMAIN workspaces[name] :
                workspaces[name][k] \in DOMAIN repositories)
    /\ [][(/\ pc[Disp] = "create_ws"
           /\ pc'[Disp] # "create_ws"
           /\ \E k \in DOMAIN disp.repo_ids :
                 disp.repo_ids[k] \notin DOMAIN repositories)
          => /\ resp'.op = "create_workspace"
             /\ resp'.n = resp.n + 1
             /\ resp'.status = "error"
             /\ resp'.code = EXEC_ERROR
             /\ UNCHANGED <<workspaces, saved, saved_workspaces, repositories>>
      ]_vars

(* C39 happens: a workspace was created with r1, r1 was removed and has     *)
(* left the workspace, and a create_workspace that named a repository not   *)
(* in the registry has been answered with an error.                         *)
C39_Witness ==
    /\ pc[Disp] = "idle"
    /\ resp.op = "create_workspace" /\ resp.status = "error"
    /\ reqs = 4
    /\ "r1" \notin DOMAIN repositories
    /\ DOMAIN workspaces = {"w1"}
    /\ workspaces["w1"] = <<>>
    /\ saved_workspaces = workspaces

(* C40: every request answered 200 is published exactly once, by a later    *)
(* drain, and in the order of enqueuing, whatever the interleaving with     *)
(* execute, resources.* and repeated initialize calls. At every moment the  *)
(* requests answered 200 so far are the event.publish lines written so far  *)
(* together with the pairs that still wait, on the channel or in the drain  *)
(* that is under way, the waiting pairs being in the order of their         *)
(* deliveries; and no step other than the take of a drain removes a pair    *)
(* from the channel.                                                        *)
C40_AcceptedPublishedOnce ==
    /\ [](LET rc == receiver
              published == Cardinality({k \in DOMAIN rc.out :
                                           rc.out[k].kind = "event.publish"})
              written == rc.call.drained + (IF rc.pc = "read" THEN 1 ELSE 0)
              taken == IF rc.pc \in {"emit", "read"}
                       THEN SubSeq(rc.pending, written + 1, Len(rc.pending))
                       ELSE <<>>
              waiting == taken \o rc.chan
          IN  /\ rc.uuids = published + Len(waiting)
              /\ \A j, k \in DOMAIN waiting :
                    j < k => waiting[j][2].id < waiting[k][2].id)
    /\ [][receiver.pc # "drain" =>
             /\ Len(receiver'.chan) >= Len(receiver.chan)
             /\ SubSeq(receiver'.chan, 1, Len(receiver.chan)) = receiver.chan]_vars

====
